---- MODULE Spec2Model ----
(***************************************************************************)
(* Manual-mode content engine of wordpecker-app: the in-memory content     *)
(* store (ManualDataService), the DataLoader (load, reload, retry, health) *)
(* and the exercise generator (ExerciseTemplateService).                   *)
(*                                                                         *)
(* JavaScript strings are TLA+ strings drawn from a finite universe; the   *)
(* string functions the code uses (toLowerCase, includes, template         *)
(* literals) are tables over that universe.  A Map<string, V> is a         *)
(* function whose DOMAIN is the key set; an array is a sequence; null is   *)
(* the empty sequence where the code holds "T | null".  The insertion      *)
(* order of definitionsDB, which keys() and values() follow, is kept in    *)
(* definitionsKeys.  An async method is one step per stretch of code       *)
(* between two awaits, so other promise chains run in between.             *)
(***************************************************************************)
EXTENDS Integers, Sequences, FiniteSets, TLC

\* ------------------------------------------------------------------------
\* Bounds of the model
\* ------------------------------------------------------------------------
MaxMutations == 3
MaxMixedMutations == 1
MaxAdminCalls == 2
MaxImports == 2
MaxLoaderCalls == 2
MaxSentences == 2
MaxAttemptsBound == 6
MaxDiskEdits == 1

\* ------------------------------------------------------------------------
\* String universe
\* ------------------------------------------------------------------------
Words == {"bank", "Bank", "zephyr"}
Contexts == {"daily", "geography", "Geography"}
NoContext == ""

\* String.prototype.toLowerCase over the universe
ToLowerCase(s) ==
  CASE s = "Bank" -> "bank"
    [] s = "Geography" -> "geography"
    [] OTHER -> s

\* `Definition not found for "${word}". Please add it to the definitions database.`
NotFoundMessage(word) ==
  CASE word = "bank" -> "Definition not found for \"bank\". Please add it to the definitions database."
    [] word = "Bank" -> "Definition not found for \"Bank\". Please add it to the definitions database."
    [] word = "zephyr" -> "Definition not found for \"zephyr\". Please add it to the definitions database."
    [] OTHER -> "Definition not found for \"?\". Please add it to the definitions database."

\* s.includes('Definition not found') over the universe
IncludesNotFound(s) ==
  \/ \E w \in Words : s = NotFoundMessage(w)
  \/ s = "Definition not found yet (draft entry)"

\* ------------------------------------------------------------------------
\* Map helpers
\* ------------------------------------------------------------------------
EmptyMap == [k \in {} |-> 0]

MapSet(m, k, v) == [x \in (DOMAIN m) \cup {k} |-> IF x = k THEN v ELSE m[x]]

\* variant: the entry is kept
MapDelete_Keep(m, k) == m

MapDelete(m, k) == [x \in (DOMAIN m) \ {k} |-> m[x]]

\* The iteration order of a Map is the order in which its keys were first
\* set: Map.prototype.set appends a key that is new and leaves a key that is
\* present at its place; Map.prototype.delete takes the key out.
KeysSet(keys, k) ==
  IF \E i \in 1..Len(keys) : keys[i] = k THEN keys ELSE Append(keys, k)

KeysDelete(keys, k) == SelectSeq(keys, LAMBDA x : x # k)

Min(a, b) == IF a < b THEN a ELSE b

\* Array.prototype.slice(0, n)
SliceTo(s, n) == SubSeq(s, 1, Min(n, Len(s)))

\* ------------------------------------------------------------------------
\* Curated records used as file contents and as request payloads
\* ------------------------------------------------------------------------
DefBank ==
  [word |-> "bank", general |-> "financial institution",
   contextual |-> [c \in {"geography"} |-> "river edge"],
   difficulty |-> "beginner", part_of_speech |-> "noun"]

DefBankUpper ==
  [word |-> "Bank", general |-> "money house",
   contextual |-> [c \in {"Geography"} |-> "river edge"],
   difficulty |-> "intermediate", part_of_speech |-> "noun"]

DefZephyr ==
  [word |-> "zephyr", general |-> "Definition not found yet (draft entry)",
   contextual |-> EmptyMap,
   difficulty |-> "advanced", part_of_speech |-> "noun"]

DefZephyrGood ==
  [word |-> "zephyr", general |-> "gentle breeze",
   contextual |-> [c \in {"geography"} |-> ""],
   difficulty |-> "advanced", part_of_speech |-> "noun"]

\* a curated record written without the "contextual" property
DefNoContextual ==
  [word |-> "zephyr", general |-> "gentle breeze",
   difficulty |-> "advanced", part_of_speech |-> "noun"]

SentBankDaily ==
  [sentence |-> "I went to the bank today.", translation |-> <<>>,
   context |-> "daily", difficulty |-> "beginner"]

SentBankGeo ==
  [sentence |-> "The river bank was muddy.", translation |-> <<"La orilla">>,
   context |-> "Geography", difficulty |-> "intermediate"]

\* A file's parsed content: JSON.parse throws on "malformed", yields a
\* non-array value on "object", and an array otherwise.
ArrayFile(items) == [kind |-> "array", items |-> items]
MalformedFile == [kind |-> "malformed", items |-> <<>>]
ObjectFile == [kind |-> "object", items |-> <<>>]

\* A directory of *.json files, keyed by basename; exists = fs.existsSync
Dir(files) == [exists |-> TRUE, files |-> files]
MissingDir == [exists |-> FALSE, files |-> EmptyMap]

\* readdirSync order of basenames (alphabetical)
AllFileNames == <<"bank", "base", "daily", "daily_bank", "daily_zephyr",
                  "geography_bank", "manual_entries", "zephyr">>

\* ------------------------------------------------------------------------
\* State
\* ------------------------------------------------------------------------
VARIABLES
  definitionsDB,        \* ManualDataService.definitionsDB : key -> Definition
  definitionsKeys,      \* the keys of definitionsDB in the Map's iteration order
  sentencesDB,          \* ManualDataService.sentencesDB   : key -> SentenceExample[]
  exerciseTemplatesDB,  \* ManualDataService.exerciseTemplatesDB
  similarWordsDB,       \* ManualDataService.similarWordsDB
  distractorsDB,        \* ManualDataService.distractorsDB : key -> string[]
  isLoaded,             \* ManualDataService.isLoaded
  disk,                 \* the data directory tree (src/data)
  pc,                   \* per caller of ManualDataService.loadAllData: position
  lastResult,           \* how the request handler's last call ended (value or error)
  dlIsLoaded,           \* DataLoader.isLoaded
  loadStats,            \* DataLoader.loadStats (<<>> is null)
  dl,                   \* the DataLoader task in flight (retry loop / reload)
  mutations,            \* number of admin mutations performed
  diskEdits,            \* number of out-of-band file edits performed
  gen,                  \* last generateExercises request and its result
  now,                  \* Date.now()
  importResult          \* the importData calls made so far, in the order of the calls

\* no importData call has been made yet.  The record of a call holds the
\* `result` object, the arguments, the records still to be taken, what the
\* call is suspended on, and the definitions and sentences at its start.
NoImport ==
  [pc |-> "none", imported |-> 0, skipped |-> 0, errors |-> <<>>,
   data |-> <<>>, overwrite |-> FALSE, via |-> "service",
   defs |-> <<>>, entries |-> <<>>, pending |-> "none",
   previous |-> <<>>, pre |-> <<>>]

\* the importData calls a behaviour makes, numbered in the order of the calls
ImportCalls == 1..MaxImports

storeVars == <<definitionsDB, definitionsKeys, sentencesDB, exerciseTemplatesDB, similarWordsDB, distractorsDB>>
loaderVars == <<dlIsLoaded, loadStats, dl>>
genVars == <<gen, now>>

\* ------------------------------------------------------------------------
\* ManualDataService: the private load* methods
\* ------------------------------------------------------------------------
\* message of the SyntaxError JSON.parse throws for a file of a category
ParseError(category) ==
  CASE category = "definitions" -> "Unexpected token in definitions JSON"
    [] category = "sentences" -> "Unexpected token in sentences JSON"
    [] category = "templates" -> "Unexpected token in templates JSON"
    [] category = "similar-words" -> "Unexpected token in similar-words JSON"
    [] OTHER -> "Unexpected token in distractors JSON"

\* fs.readdirSync(dir).filter(f => f.endsWith('.json'))
FilesInOrder(dir) == SelectSeq(AllFileNames, LAMBDA f : f \in DOMAIN dir.files)

\* data.forEach(def => definitionsDB.set(def.word.toLowerCase(), def)); m is
\* the Map as its entries (db) and its key order (keys)
RECURSIVE SetDefinitions(_, _)
SetDefinitions(m, items) ==
  IF items = <<>> THEN m
  ELSE SetDefinitions([db |-> MapSet(m.db, ToLowerCase(Head(items).word), Head(items)),
                       keys |-> KeysSet(m.keys, ToLowerCase(Head(items).word))],
                      Tail(items))

\* the for-loop of loadDefinitions; stops at the first file JSON.parse rejects
RECURSIVE ReadDefinitionFiles(_, _, _)
ReadDefinitionFiles(names, files, m) ==
  IF names = <<>> THEN [db |-> m.db, keys |-> m.keys, error |-> <<>>]
  ELSE LET data == files[Head(names)] IN
       IF data.kind = "malformed"
         THEN [db |-> m.db, keys |-> m.keys, error |-> <<ParseError("definitions")>>]
         ELSE ReadDefinitionFiles(Tail(names), files,
                IF data.kind = "array" THEN SetDefinitions(m, data.items) ELSE m)

\* the for-loop of loadSentences / loadExerciseTemplates / loadSimilarWords /
\* loadDistractors: db.set(basename.toLowerCase(), data) for array files
RECURSIVE ReadKeyedFiles(_, _, _, _)
ReadKeyedFiles(names, files, db, category) ==
  IF names = <<>> THEN [db |-> db, error |-> <<>>]
  ELSE LET data == files[Head(names)] IN
       IF data.kind = "malformed"
         THEN [db |-> db, error |-> <<ParseError(category)>>]
         ELSE ReadKeyedFiles(Tail(names), files,
                IF data.kind = "array"
                  THEN MapSet(db, ToLowerCase(Head(names)), data.items) ELSE db,
                category)

\* a missing directory is created empty and nothing is read
loadDefinitions(dir, db, keys) ==
  IF ~dir.exists THEN [db |-> db, keys |-> keys, dir |-> Dir(EmptyMap), error |-> <<>>]
  ELSE LET r == ReadDefinitionFiles(FilesInOrder(dir), dir.files, [db |-> db, keys |-> keys])
       IN [db |-> r.db, keys |-> r.keys, dir |-> dir, error |-> r.error]

loadKeyed(dir, db, category) ==
  IF ~dir.exists THEN [db |-> db, dir |-> Dir(EmptyMap), error |-> <<>>]
  ELSE LET r == ReadKeyedFiles(FilesInOrder(dir), dir.files, db, category)
       IN [db |-> r.db, dir |-> dir, error |-> r.error]

loadSentences(dir, db) == loadKeyed(dir, db, "sentences")
loadExerciseTemplates(dir, db) == loadKeyed(dir, db, "templates")
loadSimilarWords(dir, db) == loadKeyed(dir, db, "similar-words")
loadDistractors(dir, db) == loadKeyed(dir, db, "distractors")

\* The five load calls inside Promise.all([...]): every one of them runs to
\* completion synchronously (the fs calls are the *Sync ones) whether or not
\* an earlier one rejected; Promise.all rejects with the first rejection.
RunAllLoads(dk, defs, defKeys, sents, tmpls, sims, dists) ==
  LET d == loadDefinitions(dk.definitions, defs, defKeys)
      s == loadSentences(dk.sentences, sents)
      t == loadExerciseTemplates(dk.templates, tmpls)
      w == loadSimilarWords(dk.similar, sims)
      x == loadDistractors(dk.distractors, dists)
  IN [definitionsDB |-> d.db, definitionsKeys |-> d.keys,
      sentencesDB |-> s.db, exerciseTemplatesDB |-> t.db,
      similarWordsDB |-> w.db, distractorsDB |-> x.db,
      disk |-> [definitions |-> d.dir, sentences |-> s.dir, templates |-> t.dir,
                similar |-> w.dir, distractors |-> x.dir],
      error |-> d.error \o s.error \o t.error \o w.error \o x.error]

\* what a fresh process obtains from the backing files
FreshLoad(dk) == RunAllLoads(dk, EmptyMap, <<>>, EmptyMap, EmptyMap, EmptyMap, EmptyMap)

\* ------------------------------------------------------------------------
\* ManualDataService: lookups
\* ------------------------------------------------------------------------
\* definition.contextual is an object (the property is present)
HasContextual(definition) == "contextual" \in DOMAIN definition

\* what `definition.contextual[...]` throws when contextual is undefined
TypeErrorUndefined == "TypeError: Cannot read properties of undefined"

\* getDefinition(word, context) throws instead of returning
getDefinitionThrows(word, context) ==
  /\ ToLowerCase(word) \in DOMAIN definitionsDB
  /\ context # NoContext
  /\ ~HasContextual(definitionsDB[ToLowerCase(word)])

\* the string returned; TypeErrorUndefined stands for the exception thrown
getDefinition(word, context) ==
  LET key == ToLowerCase(word) IN
  IF key \notin DOMAIN definitionsDB THEN NotFoundMessage(word)
  ELSE LET definition == definitionsDB[key]
           ctx == ToLowerCase(context)
       IN IF context = NoContext THEN definition.general
          ELSE IF ~HasContextual(definition) THEN TypeErrorUndefined
          ELSE IF /\ ctx \in DOMAIN definition.contextual
                  /\ definition.contextual[ctx] # ""
                 THEN definition.contextual[ctx]
                 ELSE definition.general

getSentenceExamples(word, context) ==
  LET key == ToLowerCase(word)
      sentences == IF key \in DOMAIN sentencesDB THEN sentencesDB[key] ELSE <<>>
  IN IF context # NoContext
       THEN SelectSeq(sentences, LAMBDA s : ToLowerCase(s.context) = ToLowerCase(context))
       ELSE sentences

getSimilarWords(word) ==
  LET key == ToLowerCase(word)
  IN IF key \in DOMAIN similarWordsDB THEN similarWordsDB[key] ELSE <<>>

generateBasicDistractors(word) ==
  <<"incorrect definition A", "incorrect definition B", "incorrect definition C">>

\* `${context.toLowerCase()}_${word.toLowerCase()}` over the universe
ContextKey(context, word) ==
  CASE ToLowerCase(context) = "daily" /\ ToLowerCase(word) = "bank" -> "daily_bank"
    [] ToLowerCase(context) = "geography" /\ ToLowerCase(word) = "bank" -> "geography_bank"
    [] ToLowerCase(context) = "daily" /\ ToLowerCase(word) = "zephyr" -> "daily_zephyr"
    [] ToLowerCase(context) = "geography" /\ ToLowerCase(word) = "zephyr" -> "geography_zephyr"
    [] OTHER -> "?_?"

\* variant: a curated list is returned whatever its length
getDistractors_AnyLength(word, context) ==
  LET contextKey == IF context # NoContext THEN ContextKey(context, word) ELSE ToLowerCase(word)
  IN IF contextKey \in DOMAIN distractorsDB
       THEN SliceTo(distractorsDB[contextKey], 3)
       ELSE IF ToLowerCase(word) \in DOMAIN distractorsDB
              THEN SliceTo(distractorsDB[ToLowerCase(word)], 3)
              ELSE generateBasicDistractors(word)

\* variant: the word-only list is consulted before the composite one
getDistractors_WordFirst(word, context) ==
  LET contextKey == IF context # NoContext THEN ContextKey(context, word) ELSE ToLowerCase(word)
      hasSpecific == contextKey \in DOMAIN distractorsDB
      generalDistractors == IF ToLowerCase(word) \in DOMAIN distractorsDB
                              THEN distractorsDB[ToLowerCase(word)] ELSE <<>>
  IN IF Len(generalDistractors) >= 3
       THEN SliceTo(generalDistractors, 3)
       ELSE IF hasSpecific /\ Len(distractorsDB[contextKey]) >= 3
              THEN SliceTo(distractorsDB[contextKey], 3)
              ELSE generateBasicDistractors(word)

getDistractors(word, context) ==
  LET contextKey == IF context # NoContext THEN ContextKey(context, word) ELSE ToLowerCase(word)
      hasSpecific == contextKey \in DOMAIN distractorsDB
      generalDistractors == IF ToLowerCase(word) \in DOMAIN distractorsDB
                              THEN distractorsDB[ToLowerCase(word)] ELSE <<>>
  IN IF hasSpecific /\ Len(distractorsDB[contextKey]) >= 3
       THEN SliceTo(distractorsDB[contextKey], 3)
       ELSE IF Len(generalDistractors) >= 3
              THEN SliceTo(generalDistractors, 3)
              ELSE generateBasicDistractors(word)

hasWord(word) == ToLowerCase(word) \in DOMAIN definitionsDB

\* Array.from(definitionsDB.keys())
getAllWords == definitionsKeys

\* ------------------------------------------------------------------------
\* ManualDataService.loadAllData
\* ------------------------------------------------------------------------
\* callers of manualDataService.loadAllData(): the two service constructors
\* run during module evaluation; request handlers call it on every request
ConstructorCallers == {"ManualWordService", "ManualLearnService"}
Callers == ConstructorCallers \cup {"RequestHandler"}

\* variant: the guard is missing and every call reads the files again
ShouldSkipLoad_Never == FALSE

\* `if (this.isLoaded) return;`
ShouldSkipLoad == isLoaded

\* The synchronous part of loadAllData, up to `await Promise.all(...)`.
loadAllDataSync ==
  IF ShouldSkipLoad
    THEN [outcome |-> "noop", error |-> "",
          definitionsDB |-> definitionsDB, definitionsKeys |-> definitionsKeys,
          sentencesDB |-> sentencesDB,
          exerciseTemplatesDB |-> exerciseTemplatesDB,
          similarWordsDB |-> similarWordsDB, distractorsDB |-> distractorsDB,
          disk |-> disk]
    ELSE LET r == RunAllLoads(disk, definitionsDB, definitionsKeys, sentencesDB,
                              exerciseTemplatesDB, similarWordsDB, distractorsDB)
         IN [outcome |-> IF r.error = <<>> THEN "resolving" ELSE "rejecting",
             error |-> IF r.error = <<>> THEN "" ELSE Head(r.error),
             definitionsDB |-> r.definitionsDB, definitionsKeys |-> r.definitionsKeys,
             sentencesDB |-> r.sentencesDB,
             exerciseTemplatesDB |-> r.exerciseTemplatesDB,
             similarWordsDB |-> r.similarWordsDB, distractorsDB |-> r.distractorsDB,
             disk |-> r.disk]

ApplyLoad(r) ==
  /\ definitionsDB' = r.definitionsDB
  /\ definitionsKeys' = r.definitionsKeys
  /\ sentencesDB' = r.sentencesDB
  /\ exerciseTemplatesDB' = r.exerciseTemplatesDB
  /\ similarWordsDB' = r.similarWordsDB
  /\ distractorsDB' = r.distractorsDB
  /\ disk' = r.disk

\* the DataLoader calls (initializeWithRetry, reloadData) that are in flight
\* together, whoever made them: the start-up code, a route handler, a direct
\* caller
LoaderCalls == 1..MaxLoaderCalls

\* the DataLoader call is suspended at an await that a promise job resumes
\* (the wait of the retry loop is ended by a timer instead)
InMicrotask(t) == dl[t].pc \notin {"idle", "backoff", "returned", "thrown"}

\* every call of manualDataService.loadAllData() by a constructor or a
\* request handler has settled
StoreCallsSettled == \A c \in Callers : pc[c] = "done"

\* no promise continuation is queued: the event loop may take the next task
\* (a timer, a request)
Quiescent ==
  /\ StoreCallsSettled
  /\ \A t \in LoaderCalls : ~InMicrotask(t)
  /\ \A i \in ImportCalls :
       /\ importResult[i].pc # "awaiting"
       /\ ~(importResult[i].pc = "returned" /\ importResult[i].via = "route")

\* A caller invokes loadAllData().  The constructors do so once each, in the
\* same synchronous block; a request handler does so when the loop is idle.
LoadAllDataCall(c) ==
  /\ \/ c \in ConstructorCallers /\ pc[c] = "unstarted"
     \/ c \notin ConstructorCallers /\ Quiescent
  /\ LET r == loadAllDataSync IN
       /\ ApplyLoad(r)
       /\ pc' = [pc EXCEPT ![c] = IF r.outcome = "noop" THEN "done" ELSE r.outcome]
       /\ lastResult' = IF c \in ConstructorCallers THEN lastResult
                        ELSE IF r.outcome = "noop" THEN "noop" ELSE "pending"
  /\ UNCHANGED <<isLoaded, loaderVars, mutations, diskEdits, genVars, importResult>>

\* The continuation after `await Promise.all(...)`: set the flag, or rethrow.
\* Continuations run only after the synchronous block that constructs the
\* services has ended.
LoadAllDataSettle(c) ==
  /\ pc[c] \in {"resolving", "rejecting"}
  /\ \A k \in ConstructorCallers : pc[k] # "unstarted"
  /\ isLoaded' = IF pc[c] = "resolving" THEN TRUE ELSE isLoaded
  /\ lastResult' = IF c \in ConstructorCallers THEN lastResult
                   ELSE IF pc[c] = "resolving" THEN "loaded" ELSE "failed"
  /\ pc' = [pc EXCEPT ![c] = "done"]
  /\ UNCHANGED <<storeVars, disk, loaderVars, mutations, diskEdits, genVars, importResult>>

\* ------------------------------------------------------------------------
\* ManualDataService: admin mutations
\* ------------------------------------------------------------------------
DefInputs == {DefBank, DefBankUpper, DefZephyrGood}

\* bodies of POST /definitions and PUT /definitions/:word (without the word);
\* an absent optional string is "" and an absent contextual is <<>> (both
\* falsy in the code)
DefinitionBodies ==
  { [general |-> "shore", contextual |-> <<>>, difficulty |-> "", part_of_speech |-> ""],
    [general |-> "lender", contextual |-> <<[c \in {"Geography"} |-> "river edge"]>>,
     difficulty |-> "advanced", part_of_speech |-> "verb"] }

\* the definitionData the two handlers build from a body: `contextual || {}`,
\* `difficulty || 'intermediate'`, `part_of_speech || 'noun'`
RouteDefinitionData(body) ==
  [general |-> body.general,
   contextual |-> IF body.contextual # <<>> THEN body.contextual ELSE <<EmptyMap>>,
   difficulty |-> IF body.difficulty # "" THEN body.difficulty ELSE "intermediate",
   part_of_speech |-> IF body.part_of_speech # "" THEN body.part_of_speech ELSE "noun"]

\* definitionData of addAdminDefinition / updateDefinition: what the handlers
\* pass, and what a caller passes that leaves the optional fields out (as
\* importData does for a record without them)
AdminData == {RouteDefinitionData(b) : b \in DefinitionBodies} \cup DefinitionBodies

SentenceData ==
  { [sentence |-> "The river bank was muddy.", translation |-> "La orilla",
     context |-> "Geography", difficulty |-> "intermediate"],
    [sentence |-> "A zephyr blew.", translation |-> "", context |-> "", difficulty |-> ""] }

\* Array.from(definitionsDB.values())
DefinitionValues(db, keys) == [i \in 1..Len(keys) |-> db[keys[i]]]

\* writes every in-memory definition to definitions/manual_entries.json
saveDefinitionsToFile(dk, db, keys) ==
  [dk EXCEPT !.definitions =
     Dir(MapSet(dk.definitions.files, "manual_entries",
                ArrayFile(DefinitionValues(db, keys))))]

\* writes the word's sentence array to sentences/<word>.json
saveSentencesToFile(dk, db, word) ==
  IF ToLowerCase(word) \in DOMAIN db
    THEN [dk EXCEPT !.sentences =
            Dir(MapSet(dk.sentences.files, ToLowerCase(word), ArrayFile(db[ToLowerCase(word)])))]
    ELSE [dk EXCEPT !.sentences = Dir(dk.sentences.files)]

\* "Would save definition ... to file": only logs
saveDefinitionToFile(dk, definition) == dk

\* An admin mutation is called; it may be called while a DataLoader call or
\* an import is suspended at an await.
Mutation ==
  /\ StoreCallsSettled
  /\ mutations < MaxMutations
  /\ mutations' = mutations + 1
  /\ UNCHANGED <<exerciseTemplatesDB, similarWordsDB, distractorsDB, isLoaded,
                 pc, loaderVars, diskEdits, genVars, importResult>>

\* the admin mutations made while DataLoader calls or imports are under way
\* are within their own bound
MixedMutation == mutations < MaxMixedMutations

\* `Definition for "${word}" not found`
UpdateNotFoundError(word) ==
  CASE word = "bank" -> "Error: Definition for \"bank\" not found"
    [] word = "Bank" -> "Error: Definition for \"Bank\" not found"
    [] word = "zephyr" -> "Error: Definition for \"zephyr\" not found"
    [] OTHER -> "Error: Definition for \"?\" not found"

\* the synchronous body of addDefinition: it runs up to the await of the
\* save, which itself holds no await
addDefinitionBody(definition) ==
  /\ definitionsDB' = MapSet(definitionsDB, ToLowerCase(definition.word), definition)
  /\ definitionsKeys' = KeysSet(definitionsKeys, ToLowerCase(definition.word))
  /\ disk' = saveDefinitionsToFile(disk, definitionsDB', definitionsKeys')
  /\ lastResult' = "ok"
  /\ UNCHANGED sentencesDB

addDefinition(definition) ==
  /\ Mutation
  /\ addDefinitionBody(definition)

\* the Definition addAdminDefinition builds from its arguments
AdminDefinition(word, definitionData) ==
  [word |-> ToLowerCase(word),
   general |-> definitionData.general,
   contextual |-> IF definitionData.contextual # <<>>
                    THEN Head(definitionData.contextual) ELSE EmptyMap,
   difficulty |-> IF definitionData.difficulty # ""
                    THEN definitionData.difficulty ELSE "intermediate",
   part_of_speech |-> IF definitionData.part_of_speech # ""
                        THEN definitionData.part_of_speech ELSE "noun"]

addAdminDefinition(word, definitionData) ==
  LET definition == AdminDefinition(word, definitionData)
  IN /\ Mutation
     /\ definitionsDB' = MapSet(definitionsDB, ToLowerCase(word), definition)
     /\ definitionsKeys' = KeysSet(definitionsKeys, ToLowerCase(word))
     /\ disk' = saveDefinitionToFile(disk, definition)
     /\ lastResult' = "ok"
     /\ UNCHANGED sentencesDB

\* variant: a missing definition is created
updateDefinition_Upsert(word, definitionData) == addAdminDefinition(word, definitionData)

\* variant: the stored record is rebuilt from the arguments alone
updateDefinitionBody_Rebuild(word, definitionData) ==
  IF ToLowerCase(word) \notin DOMAIN definitionsDB
    THEN /\ lastResult' = UpdateNotFoundError(word)
         /\ UNCHANGED <<definitionsDB, definitionsKeys, sentencesDB, disk>>
    ELSE /\ definitionsDB' = MapSet(definitionsDB, ToLowerCase(word),
                                    AdminDefinition(word, definitionData))
         /\ UNCHANGED definitionsKeys
         /\ disk' = saveDefinitionToFile(disk, AdminDefinition(word, definitionData))
         /\ lastResult' = "ok"
         /\ UNCHANGED sentencesDB

updateDefinitionBody(word, definitionData) ==
  IF ToLowerCase(word) \notin DOMAIN definitionsDB
    THEN \* throw new Error(`Definition for "${word}" not found`)
         /\ lastResult' = UpdateNotFoundError(word)
         /\ UNCHANGED <<definitionsDB, definitionsKeys, sentencesDB, disk>>
    ELSE LET existing == definitionsDB[ToLowerCase(word)]
             \* `definitionData.contextual || existing.contextual`
             withContextual ==
               IF definitionData.contextual # <<>>
                 THEN [f \in (DOMAIN existing) \cup {"contextual"} |->
                         IF f = "contextual" THEN Head(definitionData.contextual) ELSE existing[f]]
                 ELSE existing
             updated ==
               [withContextual EXCEPT
                  !.general = definitionData.general,
                  !.difficulty = IF definitionData.difficulty # ""
                                   THEN definitionData.difficulty ELSE existing.difficulty,
                  !.part_of_speech = IF definitionData.part_of_speech # ""
                                       THEN definitionData.part_of_speech
                                       ELSE existing.part_of_speech]
         IN /\ definitionsDB' = MapSet(definitionsDB, ToLowerCase(word), updated)
            /\ UNCHANGED definitionsKeys
            /\ disk' = saveDefinitionToFile(disk, updated)
            /\ lastResult' = "ok"
            /\ UNCHANGED sentencesDB

updateDefinition(word, definitionData) ==
  /\ Mutation
  /\ updateDefinitionBody(word, definitionData)

\* deletes from memory only; "file deletion logic" is not implemented
removeDefinitionBody(word) ==
  /\ definitionsDB' = MapDelete(definitionsDB, ToLowerCase(word))
  /\ definitionsKeys' = KeysDelete(definitionsKeys, ToLowerCase(word))
  /\ lastResult' = "ok"
  /\ UNCHANGED <<sentencesDB, disk>>

removeDefinition(word) ==
  /\ Mutation
  /\ removeDefinitionBody(word)

\* the SentenceExample addSentenceExample builds from its arguments
NewSentenceExample(sentenceData) ==
  [sentence |-> sentenceData.sentence,
   translation |-> IF sentenceData.translation # ""
                     THEN <<sentenceData.translation>> ELSE <<>>,
   context |-> IF sentenceData.context # "" THEN sentenceData.context ELSE "general",
   difficulty |-> IF sentenceData.difficulty # ""
                    THEN sentenceData.difficulty ELSE "intermediate"]

addSentenceExampleBody(word, sentenceData) ==
  LET sentence == NewSentenceExample(sentenceData)
      key == ToLowerCase(word)
      existing == IF key \in DOMAIN sentencesDB THEN sentencesDB[key] ELSE <<>>
  IN /\ Len(existing) < MaxSentences
     /\ sentencesDB' = MapSet(sentencesDB, key, Append(existing, sentence))
     /\ disk' = saveSentencesToFile(disk, sentencesDB', word)
     /\ lastResult' = "ok"
     /\ UNCHANGED <<definitionsDB, definitionsKeys>>

addSentenceExample(word, sentenceData) ==
  /\ Mutation
  /\ addSentenceExampleBody(word, sentenceData)

\* the `sentences` argument of addSentenceExamples
SentenceLists == {<<>>, <<SentBankGeo>>, <<SentBankGeo, SentBankDaily>>}

\* addSentenceExamples(word, sentences): the word's array is replaced by
\* [...existing, ...sentences] and written to sentences/<word>.json
addSentenceExamplesBody(word, sentences) ==
  LET key == ToLowerCase(word)
      existing == IF key \in DOMAIN sentencesDB THEN sentencesDB[key] ELSE <<>>
  IN /\ Len(existing) + Len(sentences) <= MaxSentences
     /\ sentencesDB' = MapSet(sentencesDB, key, existing \o sentences)
     /\ disk' = saveSentencesToFile(disk, sentencesDB', word)
     /\ lastResult' = "ok"
     /\ UNCHANGED <<definitionsDB, definitionsKeys>>

addSentenceExamples(word, sentences) ==
  /\ Mutation
  /\ addSentenceExamplesBody(word, sentences)

\* ------------------------------------------------------------------------
\* ManualDataService.importData
\* ------------------------------------------------------------------------
\* records of data.definitions: a record, a record without "word", JSON null
ImpBank ==
  [word |-> "Bank", general |-> "lender", contextual |-> <<>>,
   difficulty |-> "", part_of_speech |-> ""]

ImpZephyr ==
  [word |-> "zephyr", general |-> "west wind",
   contextual |-> <<[c \in {"geography"} |-> "a wind"]>>,
   difficulty |-> "advanced", part_of_speech |-> "noun"]

ImpNoWord ==
  [general |-> "orphan", contextual |-> <<>>, difficulty |-> "", part_of_speech |-> ""]

ImpNull == <<>>

ImportDefinitionLists ==
  { <<>>, <<ImpBank>>, <<ImpBank, ImpZephyr>>, <<ImpZephyr, ImpZephyr>>,
    <<ImpNoWord, ImpZephyr>>, <<ImpBank, ImpNoWord, ImpZephyr>>, <<ImpNull, ImpZephyr>> }

\* Object.entries(data.sentences): <<word, sentences>> pairs
ImportSentenceEntries ==
  { <<>>,
    << <<"Bank", <<[sentence |-> "The river bank was muddy.", translation |-> "",
                    context |-> "Geography", difficulty |-> ""]>> >> >> }

ImportPayloads == [definitions : ImportDefinitionLists, sentences : ImportSentenceEntries]

\* `Failed to import definition for "${def.word}": ${error}` of a record
\* whose word is undefined
FailedDefinitionError == "Failed to import definition for \"undefined\": TypeError"

\* `Import failed: ${error}`: the handler of the record's failure failed itself
ImportFailedError == "Import failed: TypeError"

\* importData from its start, or from the await it was suspended at, up to
\* its next await or its return.  p is the record of the call and st the store
\* and the files.  A record that is skipped or fails is followed at once by the
\* next one; an imported definition and every sentence suspend the call at the
\* await of addAdminDefinition / addSentenceExample, their effect on the store
\* done.  A null record throws inside the catch block too, which leaves both
\* loops by the outer catch.
RECURSIVE ImportRun(_, _)
ImportRun(p, st) ==
  IF p.defs # <<>> THEN
    LET def == Head(p.defs) IN
    IF def = ImpNull
      THEN [p |-> [p EXCEPT !.pc = "returned", !.defs = <<>>, !.entries = <<>>,
                            !.errors = Append(@, ImportFailedError)],
            st |-> st]
    ELSE IF "word" \notin DOMAIN def
      THEN ImportRun([p EXCEPT !.defs = Tail(@),
                               !.errors = Append(@, FailedDefinitionError)], st)
    ELSE IF ToLowerCase(def.word) \in DOMAIN st.db /\ ~p.overwrite
      THEN ImportRun([p EXCEPT !.defs = Tail(@), !.skipped = @ + 1], st)
    ELSE [p |-> [p EXCEPT !.pc = "awaiting", !.defs = Tail(@), !.pending = "definition"],
          st |-> [st EXCEPT !.db = MapSet(@, ToLowerCase(def.word),
                                           AdminDefinition(def.word, def)),
                            !.keys = KeysSet(@, ToLowerCase(def.word))]]
  ELSE IF p.entries # <<>> THEN
    LET word == Head(p.entries)[1]
        sentences == Head(p.entries)[2]
        key == ToLowerCase(word)
        existing == IF key \in DOMAIN st.sdb THEN st.sdb[key] ELSE <<>>
        next == MapSet(st.sdb, key, Append(existing, NewSentenceExample(Head(sentences))))
    IN IF sentences = <<>>
         THEN ImportRun([p EXCEPT !.entries = Tail(@)], st)
         ELSE [p |-> [p EXCEPT !.pc = "awaiting", !.pending = "sentence",
                               !.entries = << <<word, Tail(sentences)>> >> \o Tail(@)],
               st |-> [st EXCEPT !.sdb = next,
                                 !.disk = saveSentencesToFile(st.disk, next, word)]]
  ELSE [p |-> [p EXCEPT !.pc = "returned"], st |-> st]

\* the store and the files an import works on
ImportStore ==
  [db |-> definitionsDB, keys |-> definitionsKeys, sdb |-> sentencesDB, disk |-> disk]

ApplyImport(i, r) ==
  /\ definitionsDB' = r.st.db
  /\ definitionsKeys' = r.st.keys
  /\ sentencesDB' = r.st.sdb
  /\ disk' = r.st.disk
  /\ importResult' = [importResult EXCEPT ![i] = r.p]
  /\ lastResult' = IF r.p.pc = "returned" THEN "ok" ELSE lastResult

\* the number the next importData call gets
NextImportCall == Cardinality({i \in ImportCalls : importResult[i].pc # "none"}) + 1

\* an importData call is suspended at one of its awaits
ImportInFlight == \E i \in ImportCalls : importResult[i].pc = "awaiting"

\* importData(data, {overwrite}) is called and runs to its first await or to
\* its return.  The service keeps no record of a call in progress (the
\* counters are a local `result`): a direct call (via = "service") starts
\* whatever an earlier call is suspended at, so that the two take their
\* records in turns.  The handler of POST /import (via = "route") is started
\* by the event loop, after every promise job has run.
importData(data, overwrite, via) ==
  LET i == NextImportCall IN
  /\ StoreCallsSettled
  /\ i \in ImportCalls
  /\ via = "route" => Quiescent
  /\ \A n \in 1..Len(data.sentences) :
       Len(getSentenceExamples(data.sentences[n][1], NoContext))
         + Len(data.sentences[n][2]) <= MaxSentences
  /\ ApplyImport(i, ImportRun(
       [NoImport EXCEPT !.data = <<data>>, !.overwrite = overwrite, !.via = via,
                        !.defs = data.definitions, !.entries = data.sentences,
                        !.previous = IF i = 1 THEN <<>>
                                     ELSE <<[data |-> importResult[i - 1].data,
                                             overwrite |-> importResult[i - 1].overwrite]>>,
                        !.pre = <<[definitionsDB |-> definitionsDB,
                                   sentencesDB |-> sentencesDB,
                                   mutations |-> mutations,
                                   alone |-> ~ImportInFlight]>>],
       ImportStore))
  /\ UNCHANGED <<exerciseTemplatesDB, similarWordsDB, distractorsDB, isLoaded,
                 pc, loaderVars, mutations, diskEdits, genVars>>

\* importData resumes after the await it was suspended at: `result.imported++`
\* when that was the await of addAdminDefinition, then on to the next record
importDataResume(i) ==
  /\ importResult[i].pc = "awaiting"
  /\ ApplyImport(i, ImportRun(
       [importResult[i] EXCEPT !.pending = "none",
                               !.imported = IF importResult[i].pending = "definition"
                                              THEN @ + 1 ELSE @],
       ImportStore))
  /\ UNCHANGED <<exerciseTemplatesDB, similarWordsDB, distractorsDB, isLoaded,
                 pc, loaderVars, mutations, diskEdits, genVars>>

\* ------------------------------------------------------------------------
\* DataLoader
\* ------------------------------------------------------------------------
RECURSIVE SumSeq(_)
SumSeq(ns) == IF ns = <<>> THEN 0 ELSE Head(ns) + SumSeq(Tail(ns))

countSentences ==
  SumSeq([i \in 1..Len(getAllWords) |-> Len(getSentenceExamples(getAllWords[i], NoContext))])
countSimilarWords ==
  SumSeq([i \in 1..Len(getAllWords) |-> Len(getSimilarWords(getAllWords[i]))])
countDistractors ==
  SumSeq([i \in 1..Len(getAllWords) |-> Len(getDistractors(getAllWords[i], NoContext))])

\* validateExerciseTemplates: contexts without a known template
knownTemplates == {"business", "daily", "technology", "sports"}

\* contextsFound.add(s.context) for each sentence: a Set iterates in the
\* order of first insertion
RECURSIVE AddContexts(_, _)
AddContexts(contexts, sentences) ==
  IF sentences = <<>> THEN contexts
  ELSE AddContexts(KeysSet(contexts, Head(sentences).context), Tail(sentences))

\* the loop `for (const word of allWords)` of validateDataIntegrity, from the
\* errors, warnings and contexts collected so far
RECURSIVE ValidateWords(_, _)
ValidateWords(ws, acc) ==
  IF ws = <<>> THEN acc
  ELSE LET word == Head(ws)
           sentences == getSentenceExamples(word, NoContext)
           distractors == getDistractors(word, NoContext)
           w1 == IF Len(sentences) > 0 THEN <<>>
                 ELSE <<[kind |-> "no example sentences", word |-> word]>>
           w2 == IF Len(distractors) >= 3 THEN <<>>
                 ELSE <<[kind |-> "insufficient distractors", word |-> word]>>
           e1 == IF IncludesNotFound(getDefinition(word, NoContext))
                   THEN <<[kind |-> "No definition found for word", word |-> word]>>
                   ELSE <<>>
       IN ValidateWords(Tail(ws),
            [errors |-> acc.errors \o e1,
             warnings |-> acc.warnings \o w1 \o w2,
             contexts |-> AddContexts(acc.contexts, sentences)])

\* the warnings validateExerciseTemplates pushes, one per context without a
\* known template, in the order of the contexts
validateExerciseTemplates(contexts) ==
  LET missing == SelectSeq(contexts, LAMBDA c : c \notin knownTemplates)
  IN [i \in 1..Len(missing) |->
        [kind |-> "No exercise templates found for context", word |-> missing[i]]]

\* stats.contextsFound, the sorted array of the distinct contexts, is kept as
\* the set of its elements
validateDataIntegrity ==
  LET allWords == getAllWords
      v == ValidateWords(allWords, [errors |-> <<>>, warnings |-> <<>>, contexts |-> <<>>])
      words == {allWords[i] : i \in 1..Len(allWords)}
  IN [isValid |-> v.errors = <<>>,
      errors |-> v.errors,
      warnings |-> v.warnings \o validateExerciseTemplates(v.contexts),
      stats |-> [totalWords |-> Len(allWords),
                 wordsWithSentences |->
                   Cardinality({w \in words : Len(getSentenceExamples(w, NoContext)) > 0}),
                 wordsWithSimilar |->
                   Cardinality({w \in words : Len(getSimilarWords(w)) > 0}),
                 wordsWithDistractions |->
                   Cardinality({w \in words : Len(getDistractors(w, NoContext)) >= 3}),
                 contextsFound |-> {v.contexts[i] : i \in 1..Len(v.contexts)}]]

\* the `stats` object a DataLoader.loadAllData call starts from (loadTime, a
\* wall-clock difference, is left out)
EmptyStats ==
  [definitionsLoaded |-> 0, sentencesLoaded |-> 0, exerciseTemplatesLoaded |-> 0,
   similarWordsLoaded |-> 0, distractorsLoaded |-> 0, errors |-> <<>>]

\* variant: validation errors are not copied into the statistics
BuildLoadStats_DropErrors(stats, validation) == stats

\* `if (!validation.isValid) stats.errors.push(...validation.errors)`: the
\* DataLoadStats a successful DataLoader.loadAllData stores and returns
BuildLoadStats(stats, validation) ==
  [stats EXCEPT !.errors = IF ~validation.isValid THEN @ \o validation.errors ELSE @]

\* variant: recorded validation errors do not affect the status
getHealthStatus_IgnoresErrors ==
  IF ~dlIsLoaded THEN "error"
  ELSE IF loadStats = <<>> THEN "warning"
  ELSE "healthy"

getHealthStatus ==
  IF ~dlIsLoaded THEN "error"
  ELSE IF loadStats = <<>> THEN "warning"
  ELSE IF Len(Head(loadStats).errors) > 0 THEN "error"
  ELSE "healthy"

\* variant: the exponential delay without its cap
BackoffDelay_NoCap(attempt) == 1000 * 2^(attempt - 1)

\* Math.min(1000 * Math.pow(2, attempt - 1), 5000)
BackoffDelay(attempt) == Min(1000 * 2^(attempt - 1), 5000)

\* `if (attempt < maxRetries)`: whether a wait follows the failed attempt
ShouldWait(attempt, maxRetries) == attempt < maxRetries

\* variant: the loop runs one iteration too many
LoopContinues_OneMore(attempt, maxRetries) == attempt <= maxRetries + 1

\* `attempt <= maxRetries`: the loop condition
LoopContinues(attempt, maxRetries) == attempt <= maxRetries

\* `Failed to load data after ${maxRetries} attempts. Last error: ${lastError?.message}`
RetryExhausted(maxRetries, lastError) ==
  [wrapped |-> TRUE, attempts |-> maxRetries,
   message |-> IF lastError = <<>> THEN "undefined" ELSE Head(lastError)]

\* argument every caller passes: initializeWithRetry(3)
DefaultMaxRetries == 3

IdleTask ==
  [op |-> "none", pc |-> "idle", attempt |-> 0, maxRetries |-> 0,
   storeCall |-> "none", storeError |-> "", lastError |-> <<>>,
   delays |-> <<>>, log |-> <<>>, returned |-> <<>>, thrown |-> <<>>,
   stats |-> EmptyStats, validation |-> <<>>]

\* the DataLoader call t has returned or thrown, or was never made
CallEnded(t) == dl[t].pc \in {"idle", "returned", "thrown"}

\* the place the next DataLoader call is followed in: the first one whose
\* call has ended.  The DataLoader itself keeps no record of a call in flight
\* and starts a call whenever it is invoked.
CallSlot(t) == CallEnded(t) /\ \A u \in LoaderCalls : u < t => ~CallEnded(u)

\* DataLoader.loadAllData up to `await manualDataService.loadAllData()`
BeginAttempt(t, task) ==
  LET r == loadAllDataSync IN
    /\ ApplyLoad(r)
    /\ dl' = [dl EXCEPT ![t] = [task EXCEPT !.pc = "loading", !.storeCall = r.outcome,
                                            !.storeError = r.error,
                                            !.stats = EmptyStats, !.validation = <<>>]]

\* `attempt++` and the loop test: run the next attempt, or leave the loop and
\* throw the summary error
NextIteration(t, task) ==
  IF LoopContinues(task.attempt + 1, task.maxRetries)
    THEN BeginAttempt(t, [task EXCEPT !.attempt = @ + 1])
    ELSE /\ dl' = [dl EXCEPT ![t] =
                     [task EXCEPT !.attempt = @ + 1, !.pc = "thrown",
                                  !.thrown = <<RetryExhausted(task.maxRetries, task.lastError)>>]]
         /\ UNCHANGED <<storeVars, disk>>

\* initializeWithRetry(maxRetries) up to its first await: the loop is entered
\* and the first attempt begins, or the loop body never runs.  A call starts
\* whatever the calls made before it are doing (the start-up code calls in
\* the block that constructed the services).
initializeWithRetryCall(t, maxRetries) ==
  /\ CallSlot(t)
  /\ \A c \in ConstructorCallers : pc[c] # "unstarted"
  /\ NextIteration(t, [IdleTask EXCEPT !.op = "initializeWithRetry",
                                       !.maxRetries = maxRetries])
  /\ UNCHANGED <<isLoaded, pc, lastResult, dlIsLoaded, loadStats, mutations, diskEdits, genVars, importResult>>

\* variant: the statistics are cleared, the flag is not
reloadData_KeepsFlag(t) ==
  /\ CallSlot(t)
  /\ StoreCallsSettled
  /\ dlIsLoaded' = dlIsLoaded
  /\ loadStats' = <<>>
  /\ BeginAttempt(t, [IdleTask EXCEPT !.op = "reloadData", !.attempt = 1, !.maxRetries = 1])
  /\ UNCHANGED <<isLoaded, pc, lastResult, mutations, diskEdits, genVars, importResult>>

reloadData(t) ==
  /\ CallSlot(t)
  /\ StoreCallsSettled
  /\ dlIsLoaded' = FALSE
  /\ loadStats' = <<>>
  /\ BeginAttempt(t, [IdleTask EXCEPT !.op = "reloadData", !.attempt = 1, !.maxRetries = 1])
  /\ UNCHANGED <<isLoaded, pc, lastResult, mutations, diskEdits, genVars, importResult>>

\* The promise of manualDataService.loadAllData() settles.  Fulfilled: the
\* store has set its flag (unless the call was a no-op) and DataLoader.loadAllData
\* is about to resume.  Rejected: DataLoader.loadAllData rethrows and its
\* caller (the retry loop or reloadData) deals with the error.
LoadAttemptSettle(t) ==
  /\ dl[t].pc = "loading"
  /\ IF dl[t].storeCall \in {"noop", "resolving"}
       THEN /\ isLoaded' = IF dl[t].storeCall = "resolving" THEN TRUE ELSE isLoaded
            /\ dl' = [dl EXCEPT ![t].pc = "loaded"]
            /\ UNCHANGED <<storeVars, disk>>
       ELSE LET failed == [dl[t] EXCEPT !.log = Append(@, [ok |-> FALSE,
                                                          message |-> dl[t].storeError])]
            IN
            /\ UNCHANGED isLoaded
            /\ IF dl[t].op = "reloadData"
                 THEN /\ dl' = [dl EXCEPT ![t] =
                                  [failed EXCEPT !.pc = "thrown",
                                                 !.thrown = <<[wrapped |-> FALSE, attempts |-> 0,
                                                               message |-> dl[t].storeError]>>]]
                      /\ UNCHANGED <<storeVars, disk>>
                 ELSE IF ShouldWait(dl[t].attempt, dl[t].maxRetries)
                   THEN /\ dl' = [dl EXCEPT ![t] =
                                    [failed EXCEPT !.pc = "backoff",
                                                   !.lastError = <<dl[t].storeError>>,
                                                   !.delays = Append(@, BackoffDelay(dl[t].attempt))]]
                        /\ UNCHANGED <<storeVars, disk>>
                   ELSE NextIteration(t, [failed EXCEPT !.lastError = <<dl[t].storeError>>])
  /\ UNCHANGED <<pc, lastResult, dlIsLoaded, loadStats, mutations, diskEdits, genVars, importResult>>

\* DataLoader.loadAllData resumes after one of its first three awaits and
\* runs to the next: the number of definitions and the body of countSentences,
\* then the body of countSimilarWords, then the body of countDistractors
LoadAttemptCount(t) ==
  /\ dl[t].pc \in {"loaded", "countedSentences", "countedSimilar"}
  /\ dl' = [dl EXCEPT ![t] =
              CASE dl[t].pc = "loaded" ->
                     [dl[t] EXCEPT !.pc = "countedSentences",
                                   !.stats.definitionsLoaded = Len(getAllWords),
                                   !.stats.sentencesLoaded = countSentences]
                [] dl[t].pc = "countedSentences" ->
                     [dl[t] EXCEPT !.pc = "countedSimilar",
                                   !.stats.similarWordsLoaded = countSimilarWords]
                [] OTHER ->
                     [dl[t] EXCEPT !.pc = "countedDistractors",
                                   !.stats.distractorsLoaded = countDistractors]]
  /\ UNCHANGED <<storeVars, isLoaded, disk, pc, lastResult, dlIsLoaded, loadStats,
                 mutations, diskEdits, genVars, importResult>>

\* ... resumes after `await this.countDistractors()` and runs the loop of
\* validateDataIntegrity; the awaits inside validateDataIntegrity touch nothing
LoadAttemptValidate(t) ==
  /\ dl[t].pc = "countedDistractors"
  /\ dl' = [dl EXCEPT ![t].pc = "validated", ![t].validation = <<validateDataIntegrity>>]
  /\ UNCHANGED <<storeVars, isLoaded, disk, pc, lastResult, dlIsLoaded, loadStats,
                 mutations, diskEdits, genVars, importResult>>

\* ... resumes after `await this.validateDataIntegrity()`: the statistics and
\* the flag are stored and the statistics returned to the caller, which
\* returns them (initializeWithRetry leaves its loop)
LoadAttemptEnd(t) ==
  /\ dl[t].pc = "validated"
  /\ LET stats == BuildLoadStats(dl[t].stats, Head(dl[t].validation)) IN
       /\ loadStats' = <<stats>>
       /\ dlIsLoaded' = TRUE
       /\ dl' = [dl EXCEPT ![t].pc = "returned", ![t].returned = <<stats>>,
                           ![t].stats = EmptyStats, ![t].validation = <<>>,
                           ![t].log = Append(@, [ok |-> TRUE, message |-> ""])]
  /\ UNCHANGED <<storeVars, isLoaded, disk, pc, lastResult, mutations, diskEdits,
                 genVars, importResult>>

\* the setTimeout of the retry loop fires
BackoffElapsed(t) ==
  /\ dl[t].pc = "backoff"
  /\ Quiescent
  /\ NextIteration(t, dl[t])
  /\ UNCHANGED <<isLoaded, pc, lastResult, dlIsLoaded, loadStats, mutations, diskEdits, genVars, importResult>>

\* the handler of POST /import resumes after `await importData(...)` and
\* calls dataLoader.initializeWithRetry(3)
importRouteReload(i, t) ==
  /\ importResult[i].pc = "returned"
  /\ importResult[i].via = "route"
  /\ CallSlot(t)
  /\ NextIteration(t, [IdleTask EXCEPT !.op = "initializeWithRetry",
                                       !.maxRetries = DefaultMaxRetries])
  /\ importResult' = [importResult EXCEPT ![i].pc = "reloading"]
  /\ UNCHANGED <<isLoaded, pc, lastResult, dlIsLoaded, loadStats, mutations, diskEdits, genVars>>

\* ------------------------------------------------------------------------
\* The data directory and its maintainer
\* ------------------------------------------------------------------------
DistractorFiles ==
  ("bank" :> ArrayFile(<<"river", "money", "bench", "shore">>))
  @@ ("daily_bank" :> ArrayFile(<<"a place to sit", "a kind of boat">>))
  @@ ("geography_bank" :> ArrayFile(<<"a mountain top", "a dry valley", "an island">>))
  @@ ("daily_zephyr" :> ArrayFile(<<"a storm">>))

SimilarFiles ==
  ("bank" :> ArrayFile(<<[word |-> "shore", meaning |-> "land along water",
                          similarity_score |-> 8, usage_note |-> "geography"]>>))

TemplateFiles ==
  ("daily" :> ArrayFile(<<[type |-> "multiple_choice", question_template |-> "What does {word} mean?",
                           distractors |-> <<>>, context |-> "daily",
                           difficulty |-> "beginner"]>>))

DefinitionFileContents ==
  {ArrayFile(<<DefBank, DefZephyr>>), ArrayFile(<<DefBankUpper>>), MalformedFile}

SentenceFileContents == {ArrayFile(<<SentBankDaily>>), MalformedFile, ObjectFile}

DiskWith(defContent, sentDir) ==
  [definitions |-> Dir("base" :> defContent),
   sentences |-> sentDir,
   templates |-> Dir(TemplateFiles),
   similar |-> Dir(SimilarFiles),
   distractors |-> Dir(DistractorFiles)]

InitialDisks ==
  {DiskWith(d, Dir("bank" :> s)) :
     d \in {ArrayFile(<<DefBank, DefZephyr>>), MalformedFile},
     s \in {ArrayFile(<<SentBankDaily>>), MalformedFile}}
  \cup {DiskWith(ArrayFile(<<DefBank, DefZephyr>>), MissingDir),
        DiskWith(ArrayFile(<<DefBank, DefNoContextual>>), Dir("bank" :> ArrayFile(<<SentBankDaily>>)))}

\* the maintainer of the curated files rewrites definitions/base.json
EditDefinitionsFile(content) ==
  /\ Quiescent
  /\ diskEdits < MaxDiskEdits
  /\ disk.definitions.exists
  /\ disk.definitions.files["base"] # content
  /\ disk' = [disk EXCEPT !.definitions.files = MapSet(@, "base", content)]
  /\ diskEdits' = diskEdits + 1
  /\ UNCHANGED <<storeVars, isLoaded, pc, lastResult, loaderVars, mutations, genVars, importResult>>

\* ... or sentences/bank.json
EditSentencesFile(content) ==
  /\ Quiescent
  /\ diskEdits < MaxDiskEdits
  /\ disk.sentences.exists
  /\ "bank" \in DOMAIN disk.sentences.files => disk.sentences.files["bank"] # content
  /\ disk' = [disk EXCEPT !.sentences.files = MapSet(@, "bank", content)]
  /\ diskEdits' = diskEdits + 1
  /\ UNCHANGED <<storeVars, isLoaded, pc, lastResult, loaderVars, mutations, genVars, importResult>>

\* ------------------------------------------------------------------------
\* ExerciseTemplateService
\* ------------------------------------------------------------------------
MaxClock == 1
MaxAnswerLen == 2
MaxShuffleLen == 3

\* word.length over the universe
StrLength(s) ==
  CASE s \in {"bank", "Bank"} -> 4
    [] s = "zephyr" -> 6
    [] OTHER -> 0

getDifficultyForWord(word) ==
  IF StrLength(word) <= 4 THEN "beginner"
  ELSE IF StrLength(word) <= 8 THEN "intermediate"
  ELSE "advanced"

\* sentence.replace(new RegExp(`\\b${word}\\b`, 'gi'), '_____') over the universe
BlankWord(sentence, word) ==
  CASE sentence = "I went to the bank today." /\ ToLowerCase(word) = "bank"
         -> "I went to the _____ today."
    [] sentence = "The river bank was muddy." /\ ToLowerCase(word) = "bank"
         -> "The river _____ was muddy."
    [] sentence = "A zephyr blew." /\ ToLowerCase(word) = "zephyr"
         -> "A _____ blew."
    [] OTHER -> sentence

\* sentence.split(' ').findIndex(w => w.toLowerCase().includes(word.toLowerCase())) !== -1
HasTokenWith(sentence, word) ==
  \/ sentence \in {"I went to the bank today.", "The river bank was muddy."}
       /\ ToLowerCase(word) = "bank"
  \/ sentence = "A zephyr blew." /\ ToLowerCase(word) = "zephyr"

\* the sentence with the first such token replaced by '_____'
BlankToken(sentence, word) == BlankWord(sentence, word)

\* values of Math.floor(Math.random() * n)
RandomIndex(n) == IF n <= 0 THEN {0} ELSE 0..(n - 1)

\* the draws j of the Fisher-Yates loop, one per i = length-1 .. 1
ShuffleDraws(n) ==
  {d \in [1..(n - 1) -> 0..(n - 1)] : \A i \in 1..(n - 1) : d[i] <= i}

\* variant: the destructuring assignment writes one side only
Swap_OneSided(a, i, j) == [a EXCEPT ![i] = a[j]]

Swap(a, i, j) == [a EXCEPT ![i] = a[j], ![j] = a[i]]

RECURSIVE ShuffleFrom(_, _, _)
ShuffleFrom(a, i, draws) ==
  IF i <= 0 THEN a
  ELSE ShuffleFrom(Swap(a, i + 1, draws[i] + 1), i - 1, draws)

shuffleArray(array, draws) == ShuffleFrom(array, Len(array) - 1, draws)

\* `${prefix}_${word.id}_${Date.now()}`
ExerciseId(prefix, wordId, ts) == [prefix |-> prefix, wordId |-> wordId, ts |-> ts]

\* variant: the options are the distractors and a catch-all entry
generateMultipleChoice_NoCorrect(word, context, draws, ts) ==
  LET distractors == getDistractors(word.value, context)
      allOptions == SliceTo(distractors, 3) \o <<"none of these">>
  IN [id |-> ExerciseId("mc", word.id, ts),
      type |-> "multiple_choice",
      question |-> [template |-> "What does {word} mean{in the context of}?",
                    text |-> word.value, shown |-> context],
      options |-> shuffleArray(allOptions, draws),
      correct |-> word.meaning,
      word |-> word.value,
      context |-> context,
      difficulty |-> getDifficultyForWord(word.value)]

generateMultipleChoice(word, context, draws, ts) ==
  LET distractors == getDistractors(word.value, context)
      allOptions == <<word.meaning>> \o SliceTo(distractors, 3)
  IN [id |-> ExerciseId("mc", word.id, ts),
      type |-> "multiple_choice",
      question |-> [template |-> "What does {word} mean{in the context of}?",
                    text |-> word.value, shown |-> context],
      options |-> shuffleArray(allOptions, draws),
      correct |-> word.meaning,
      word |-> word.value,
      context |-> context,
      difficulty |-> getDifficultyForWord(word.value)]

generateMatching(word, context, draws, ts) ==
  LET distractors == getDistractors(word.value, context)
      allOptions == <<word.meaning>> \o SliceTo(distractors, 3)
  IN [id |-> ExerciseId("match", word.id, ts),
      type |-> "matching",
      question |-> [template |-> "Match {word} with its correct definition:",
                    text |-> word.value, shown |-> ""],
      options |-> shuffleArray(allOptions, draws),
      correct |-> word.meaning,
      word |-> word.value,
      context |-> context,
      difficulty |-> getDifficultyForWord(word.value)]

generateFillInBlank(word, context, pick, ts) ==
  LET sentences == getSentenceExamples(word.value, context)
  IN [id |-> ExerciseId("fib", word.id, ts),
      type |-> "fill_in_blank",
      question |->
        IF Len(sentences) > 0
          THEN [template |-> "Fill in the blank: {sentence}",
                text |-> BlankWord(sentences[pick + 1].sentence, word.value), shown |-> ""]
          ELSE [template |-> "Complete the sentence: ... (Hint: {meaning})",
                text |-> "I need to use the _____ to complete this task.",
                shown |-> word.meaning],
      options |-> <<>>,
      correct |-> word.value,
      word |-> word.value,
      context |-> context,
      difficulty |-> getDifficultyForWord(word.value)]

generateTrueFalse(word, context, isTrue, ts) ==
  LET distractors == getDistractors(word.value, context)
      falseDefinition == IF Len(distractors) > 0 /\ distractors[1] # ""
                           THEN distractors[1] ELSE "an incorrect definition"
  IN [id |-> ExerciseId("tf", word.id, ts),
      type |-> "true_false",
      question |-> [template |-> "True or False: {word} means: {definition}",
                    text |-> word.value,
                    shown |-> IF isTrue THEN word.meaning ELSE falseDefinition],
      options |-> <<"True", "False">>,
      correct |-> IF isTrue THEN "True" ELSE "False",
      word |-> word.value,
      context |-> context,
      difficulty |-> getDifficultyForWord(word.value)]

generateSentenceCompletion(word, context, pick, ts) ==
  LET sentences == getSentenceExamples(word.value, context)
      found == Len(sentences) > 0 /\ HasTokenWith(sentences[pick + 1].sentence, word.value)
  IN [id |-> ExerciseId("sc", word.id, ts),
      type |-> "sentence_completion",
      question |->
        IF found
          THEN [template |-> "Complete this sentence: {sentence}",
                text |-> BlankToken(sentences[pick + 1].sentence, word.value), shown |-> ""]
          ELSE [template |-> "Use {word} in a sentence that demonstrates its meaning: {meaning}",
                text |-> word.value, shown |-> word.meaning],
      options |-> <<>>,
      correct |-> word.value,
      word |-> word.value,
      context |-> context,
      difficulty |-> getDifficultyForWord(word.value)]

\* generateExerciseForWord: every Exercise the random draws can produce when
\* Date.now() is ts; the set is empty where the method returns null
generateExerciseForWord(word, context, exerciseTypes, ts) ==
  LET chosen == {IF Len(exerciseTypes) > 0 THEN exerciseTypes[i + 1] ELSE "undefined" :
                   i \in RandomIndex(Len(exerciseTypes))}
      picks == RandomIndex(Len(getSentenceExamples(word.value, context)))
      choice(t) ==
        CASE t = "fill_in_blank" -> {generateFillInBlank(word, context, p, ts) : p \in picks}
          [] t = "matching" -> {generateMatching(word, context, d, ts) : d \in ShuffleDraws(4)}
          [] t = "true_false" -> {generateTrueFalse(word, context, b, ts) : b \in BOOLEAN}
          [] t = "sentence_completion" ->
               {generateSentenceCompletion(word, context, p, ts) : p \in picks}
          [] OTHER -> {generateMultipleChoice(word, context, d, ts) : d \in ShuffleDraws(4)}
  IN UNION {choice(t) : t \in chosen}

\* the for-loop of generateExercises: one push per word whose exercise is not
\* null.  Every exercise reads Date.now() for its id: the clock, at `clock`
\* when the loop reaches the word, may have advanced from one word to the next.
RECURSIVE ExerciseLists(_, _, _, _)
ExerciseLists(words, context, exerciseTypes, clock) ==
  IF words = <<>> THEN {<<>>}
  ELSE LET first == generateExerciseForWord(Head(words), context, exerciseTypes, clock)
           rest == UNION {ExerciseLists(Tail(words), context, exerciseTypes, ts)
                            : ts \in clock..MaxClock}
       IN IF first = {} THEN rest
          ELSE {<<e>> \o r : e \in first, r \in rest}

WordZephyr == [id |-> "1", value |-> "zephyr", meaning |-> "???"]
WordBank == [id |-> "2", value |-> "bank", meaning |-> "financial institution"]
WordBankUpper == [id |-> "3", value |-> "Bank", meaning |-> "river"]

\* the `words` argument of the requests
WordLists ==
  { <<>>, <<WordZephyr>>, <<WordBank>>, <<WordBankUpper>>,
    <<WordZephyr, WordBank>>, <<WordBank, WordBank>> }

TypeLists ==
  { <<"multiple_choice">>, <<"true_false", "fill_in_blank">>,
    <<"matching", "sentence_completion">>, <<"essay">>, <<>> }

GenContexts == {"daily", "Geography", NoContext}
LookupContexts == {"daily", "Geography"}

NoRequest == [words |-> <<>>, context |-> NoContext, exerciseTypes |-> <<>>, result |-> <<>>]

\* generateExercises after `await manualDataService.loadAllData()` returned;
\* the result is held until it has been handed to the caller
generateExercises(words, context, exerciseTypes) ==
  /\ Quiescent
  /\ isLoaded
  /\ gen = NoRequest
  /\ \E result \in ExerciseLists(words, context, exerciseTypes, now) :
       /\ gen' = [words |-> words, context |-> context,
                  exerciseTypes |-> exerciseTypes, result |-> result]
       /\ now' = IF result = <<>> THEN now ELSE result[Len(result)].id.ts
  /\ UNCHANGED <<storeVars, isLoaded, disk, pc, lastResult, loaderVars,
                 mutations, diskEdits, importResult>>

\* ManualLearnService.generateExercises maps the exercises and returns them
returnExercises ==
  /\ gen # NoRequest
  /\ gen' = NoRequest
  /\ UNCHANGED <<storeVars, isLoaded, disk, pc, lastResult, loaderVars,
                 mutations, diskEdits, now, importResult>>

\* the wall clock advances
Tick ==
  /\ now < MaxClock
  /\ now' = now + 1
  /\ UNCHANGED <<storeVars, isLoaded, disk, pc, lastResult, loaderVars,
                 mutations, diskEdits, gen, importResult>>

\* ------------------------------------------------------------------------
\* ManualVocabularyService.getWordDetails
\* ------------------------------------------------------------------------
\* template strings are kept as the sequence of their parts
WordNotFoundError(word, context) ==
  <<"Error: Word \"", word, "\" not found in context \"", context, "\"">>

ExamplePlaceholder(word, context) ==
  <<"Example: \"", word, "\" is commonly used in ", context, " contexts.">>

\* the outcome of getWordDetails after `await manualDataService.loadAllData()`
\* returned: either the thrown error or the store-derived fields of the result
WordDetails(word, context) ==
  IF getDefinitionThrows(word, context)
    THEN [thrown |-> <<TypeErrorUndefined>>]
  ELSE LET definition == getDefinition(word, context) IN
    IF definition = "" \/ IncludesNotFound(definition)
      THEN [thrown |-> <<WordNotFoundError(word, context)>>]
      ELSE LET examples == getSentenceExamples(word, NoContext) IN
           [thrown |-> <<>>,
            word |-> word,
            meaning |-> definition,
            example |-> IF Len(examples) > 0
                          THEN examples[1].sentence
                          ELSE ExamplePlaceholder(word, context),
            context |-> context,
            similar_words |-> getSimilarWords(word)]

getWordDetails(word, context) ==
  /\ Quiescent
  /\ isLoaded
  /\ gen = NoRequest
  /\ gen' = [op |-> "getWordDetails", word |-> word, context |-> context,
             outcome |-> WordDetails(word, context)]
  /\ UNCHANGED <<storeVars, isLoaded, disk, pc, lastResult, loaderVars,
                 mutations, diskEdits, now, importResult>>

\* the route handler sends the response (or the error) to the caller
sendResponse ==
  /\ gen # NoRequest
  /\ gen' = NoRequest
  /\ UNCHANGED <<storeVars, isLoaded, disk, pc, lastResult, loaderVars,
                 mutations, diskEdits, now, importResult>>

\* ------------------------------------------------------------------------
\* SentenceService.generateReadingPassage, ManualWordService.generateLightReading
\* ------------------------------------------------------------------------
Levels == {"beginner", "intermediate"}

generateIntroSentence(context) ==
  CASE context = "business" -> "In the business world, understanding key terminology is essential."
    [] context = "daily" -> "In our everyday lives, we encounter many important concepts."
    [] context = "technology" -> "Modern technology relies on specific terminology that's important to understand."
    [] context = "sports" -> "Sports and athletic activities involve specialized vocabulary."
    [] context = "geography" -> "Understanding geographical terms helps us describe the world around us."
    [] context = "academic" -> "Academic study requires familiarity with specialized vocabulary."
    [] OTHER -> "Learning new vocabulary helps us communicate more effectively."

generateConclusionSentence(context) ==
  CASE context = "business" -> "These terms form the foundation of business communication."
    [] context = "daily" -> "These words help us express ourselves in daily conversations."
    [] context = "technology" -> "Understanding these terms is key to navigating the digital world."
    [] context = "sports" -> "This vocabulary is essential for discussing athletic activities."
    [] context = "geography" -> "These terms help us describe and understand our physical world."
    [] context = "academic" -> "This vocabulary is fundamental for academic success."
    [] OTHER -> "Mastering these words will improve your communication skills."

generateTitle(context) ==
  CASE context = "business" -> "Business Vocabulary in Context"
    [] context = "daily" -> "Everyday English Conversations"
    [] context = "technology" -> "Technology Terms and Usage"
    [] context = "sports" -> "Sports and Athletic Vocabulary"
    [] context = "geography" -> "Geographical Terms and Descriptions"
    [] context = "academic" -> "Academic Vocabulary in Practice"
    [] OTHER -> "Vocabulary in Context"

\* sentenceMap.get(word): the examples of the context, filtered by difficulty
getSentencesForWords(word, context, difficulty) ==
  LET sentences == getSentenceExamples(word, context)
  IN IF difficulty # ""
       THEN SelectSeq(sentences, LAMBDA s : s.difficulty = difficulty)
       ELSE sentences

\* sentence.match(new RegExp(`\\b${word}\\b`, 'i')) finds the word
WordMatch(sentence, word) == BlankWord(sentence, word) # sentence

\* the passage is kept as the sequence of the sentences it joins with ' ';
\* positions, word count and reading time (string arithmetic) are left out
generateReadingPassage(words, context, difficulty) ==
  LET first(i) == getSentencesForWords(words[i].value, context, difficulty)
      positions == [i \in 1..Len(words) |-> i]
      used == SelectSeq(positions, LAMBDA i : Len(first(i)) > 0)
      matched == SelectSeq(used, LAMBDA i : WordMatch(first(i)[1].sentence, words[i].value))
  IN [title |-> generateTitle(context),
      content |-> <<generateIntroSentence(context)>>
                    \o [j \in 1..Len(used) |-> first(used[j])[1].sentence]
                    \o <<generateConclusionSentence(context)>>,
      highlighted_words |-> [j \in 1..Len(matched) |->
                               [word |-> words[matched[j]].value,
                                definition |-> words[matched[j]].meaning]],
      difficulty |-> difficulty,
      context |-> context]

LightReading(words, context, level) ==
  LET readingPassage == generateReadingPassage(words, context, level)
  IN [title |-> readingPassage.title,
      content |-> readingPassage.content,
      highlighted_words |-> readingPassage.highlighted_words,
      list_context |-> context,
      level |-> readingPassage.difficulty,
      words_included |-> Len(readingPassage.highlighted_words),
      total_words_in_list |-> Len(words)]

generateLightReading(words, context, level) ==
  /\ Quiescent
  /\ isLoaded
  /\ gen = NoRequest
  /\ gen' = [op |-> "generateLightReading", words |-> words, context |-> context,
             level |-> level, outcome |-> LightReading(words, context, level)]
  /\ UNCHANGED <<storeVars, isLoaded, disk, pc, lastResult, loaderVars,
                 mutations, diskEdits, now, importResult>>

\* ------------------------------------------------------------------------
\* Answer validation: ExerciseTemplateService.validateAnswer and
\* ManualWordService.validateAnswer
\* ------------------------------------------------------------------------
\* answers are sequences of characters
AnswerChars == {"a", "A", "b", " ", "!"}

Answers == UNION {[1..n -> AnswerChars] : n \in 0..MaxAnswerLen}

IsWhitespace(ch) == ch = " "

\* \w of a regular expression
IsWordChar(ch) == ch \in {"a", "A", "b"}

LowerChar(ch) == IF ch = "A" THEN "a" ELSE ch

\* String.prototype.trim
RECURSIVE TrimStart(_)
TrimStart(str) ==
  IF str # <<>> /\ IsWhitespace(Head(str)) THEN TrimStart(Tail(str)) ELSE str

RECURSIVE TrimEnd(_)
TrimEnd(str) ==
  IF str # <<>> /\ IsWhitespace(str[Len(str)])
    THEN TrimEnd(SubSeq(str, 1, Len(str) - 1)) ELSE str

Trim(str) == TrimEnd(TrimStart(str))

LowerCaseChars(str) == [i \in 1..Len(str) |-> LowerChar(str[i])]

\* String.prototype.includes
Includes(str, part) ==
  \E i \in 0..(Len(str) - Len(part)) : SubSeq(str, i + 1, i + Len(part)) = part

\* ExerciseTemplateService.normalizeAnswer
normalizeAnswer(answer) == LowerCaseChars(Trim(answer))

\* the normalizeAnswer closure of ManualWordService.validateAnswer
normalizeAnswerWordService(answer) ==
  SelectSeq(LowerCaseChars(Trim(answer)), LAMBDA ch : IsWordChar(ch) \/ IsWhitespace(ch))

ValidateExerciseAnswer(userAnswer, correctAnswer) ==
  [isCorrect |-> normalizeAnswer(userAnswer) = normalizeAnswer(correctAnswer),
   isPartialMatch |-> FALSE]

ValidateWordAnswer(userAnswer, correctAnswer) ==
  LET normalizedUser == normalizeAnswerWordService(userAnswer)
      normalizedCorrect == normalizeAnswerWordService(correctAnswer)
      isExactMatch == normalizedUser = normalizedCorrect
      isPartialMatch == \/ Includes(normalizedUser, normalizedCorrect)
                        \/ Includes(normalizedCorrect, normalizedUser)
  IN [isCorrect |-> \/ isExactMatch
                    \/ /\ isPartialMatch
                       /\ 10 * Len(normalizedUser) > 7 * Len(normalizedCorrect),
      isPartialMatch |-> isPartialMatch]

\* ManualLearnService.validateAnswer -> ExerciseTemplateService.validateAnswer
validateAnswer(userAnswer, correctAnswer) ==
  /\ gen = NoRequest
  /\ gen' = [op |-> "validateAnswer", service |-> "ExerciseTemplateService",
             userAnswer |-> userAnswer, correctAnswer |-> correctAnswer,
             outcome |-> ValidateExerciseAnswer(userAnswer, correctAnswer)]
  /\ UNCHANGED <<storeVars, isLoaded, disk, pc, lastResult, loaderVars,
                 mutations, diskEdits, now, importResult>>

\* WordAdapter.validateAnswer -> ManualWordService.validateAnswer
validateWordAnswer(userAnswer, correctAnswer) ==
  /\ gen = NoRequest
  /\ gen' = [op |-> "validateAnswer", service |-> "ManualWordService",
             userAnswer |-> userAnswer, correctAnswer |-> correctAnswer,
             outcome |-> ValidateWordAnswer(userAnswer, correctAnswer)]
  /\ UNCHANGED <<storeVars, isLoaded, disk, pc, lastResult, loaderVars,
                 mutations, diskEdits, now, importResult>>

\* ------------------------------------------------------------------------
\* Service adapters: getHealthStatus
\* ------------------------------------------------------------------------
\* QuizServiceAdapter.getHealthStatus; openaiConfigured is !!process.env.OPENAI_API_KEY
QuizGetHealthStatus(isManualMode, openaiConfigured) ==
  IF isManualMode
    THEN [mode |-> "manual", available |-> TRUE,
          details |-> [dataLoaded |-> TRUE, questionTemplatesAvailable |-> TRUE]]
    ELSE [mode |-> "llm", available |-> openaiConfigured,
          details |-> [openaiConfigured |-> openaiConfigured]]

\* LearnServiceAdapter.getHealthStatus
LearnGetHealthStatus(isManualMode, openaiConfigured) ==
  IF isManualMode
    THEN [mode |-> "manual", available |-> TRUE,
          details |-> [dataLoaded |-> TRUE, exerciseTemplatesAvailable |-> TRUE]]
    ELSE [mode |-> "llm", available |-> openaiConfigured,
          details |-> [openaiConfigured |-> openaiConfigured]]

\* ------------------------------------------------------------------------
\* Admin mutations in flight: the caller has not yet been resumed
\* ------------------------------------------------------------------------
\* Array.from(db.values()).reduce((sum, v) => sum + v.length, 0)
RECURSIVE SumLengths(_)
SumLengths(db) ==
  IF DOMAIN db = {} THEN 0
  ELSE LET k == CHOOSE x \in DOMAIN db : TRUE
       IN Len(db[k]) + SumLengths([x \in (DOMAIN db) \ {k} |-> db[x]])

\* the fields of getStats that the mutations can change
getStats ==
  [totalWords |-> Cardinality(DOMAIN definitionsDB),
   totalDefinitions |-> Cardinality(DOMAIN definitionsDB),
   totalSentences |-> SumLengths(sentencesDB)]

\* what the read operations show of one word: the stored Definition that
\* getDefinition consults, getSentenceExamples(word) and getStats()
ReadWord(word) ==
  [definition |-> IF hasWord(word) THEN <<definitionsDB[ToLowerCase(word)]>> ELSE <<>>,
   sentences |-> getSentenceExamples(word, NoContext),
   stats |-> getStats]

AdminCalls ==
  {[name |-> "addDefinition", word |-> d.word, data |-> d] : d \in DefInputs}
    \cup {[name |-> "updateDefinition", word |-> w, data |-> d] : w \in Words, d \in AdminData}
    \cup {[name |-> "removeDefinition", word |-> w, data |-> <<>>] : w \in Words}
    \cup {[name |-> "addSentenceExample", word |-> w, data |-> d] :
            w \in Words, d \in SentenceData}
    \cup {[name |-> "addSentenceExamples", word |-> w, data |-> [sentences |-> ss]] :
            w \in Words, ss \in SentenceLists}

\* the calls whose promise has not been resumed yet, oldest first
InFlight == IF "inflight" \in DOMAIN gen THEN gen.inflight ELSE <<>>

\* A caller invokes an admin mutation: its body runs to the await of the save
\* and the call stays in flight until its continuation runs.  (`started`
\* counts the calls made since a call was last made with none in flight.)
AdminCallStart(call) ==
  /\ Quiescent
  /\ isLoaded
  /\ "result" \notin DOMAIN gen \/ gen = NoRequest
  /\ mutations < MaxAdminCalls
  /\ mutations' = mutations + 1
  /\ \/ call.name = "addDefinition" /\ addDefinitionBody(call.data)
     \/ call.name = "updateDefinition" /\ updateDefinitionBody(call.word, call.data)
     \/ call.name = "removeDefinition" /\ removeDefinitionBody(call.word)
     \/ call.name = "addSentenceExample" /\ addSentenceExampleBody(call.word, call.data)
     \/ call.name = "addSentenceExamples" /\ addSentenceExamplesBody(call.word, call.data.sentences)
  /\ gen' = [op |-> "admin",
             inflight |-> Append(InFlight, [call |-> call,
                                            pre |-> ReadWord(call.word),
                                            post |-> ReadWord(call.word)']),
             started |-> IF InFlight = <<>> THEN 1 ELSE gen.started + 1,
             observed |-> <<>>]
  /\ UNCHANGED <<exerciseTemplatesDB, similarWordsDB, distractorsDB, isLoaded,
                 pc, loaderVars, diskEdits, now, importResult>>

\* a read runs while a mutation is in flight (the reads look the word up
\* under its lower-cased key, which is what is noted with the value read)
ReadInterleaved(word) ==
  /\ InFlight # <<>>
  /\ gen' = [gen EXCEPT !.observed = <<[word |-> ToLowerCase(word), value |-> ReadWord(word)]>>]
  /\ UNCHANGED <<storeVars, isLoaded, disk, pc, lastResult, loaderVars,
                 mutations, diskEdits, now, importResult>>

\* the call reached the await of its save: its caller resumes two promise
\* jobs after the call.  removeDefinition has no await, and updateDefinition
\* of a word the store does not hold throws before its await: their callers
\* resume one job after the call.
AwaitsSave(c) ==
  ~ \/ c.call.name = "removeDefinition"
    \/ c.call.name = "updateDefinition" /\ c.pre.definition = <<>>

\* the sequence without its i-th element
RemoveAt(seq, i) == SubSeq(seq, 1, i - 1) \o SubSeq(seq, i + 1, Len(seq))

\* the continuation of a call in flight runs: that of the oldest call, or that
\* of a call without await made while every older call waits for its save
AdminCallReturn(i) ==
  /\ i \in 1..Len(InFlight)
  /\ \/ i = 1
     \/ ~AwaitsSave(InFlight[i]) /\ \A j \in 1..(i - 1) : AwaitsSave(InFlight[j])
  /\ gen' = IF Len(InFlight) = 1 THEN NoRequest
            ELSE [gen EXCEPT !.inflight = RemoveAt(@, i), !.observed = <<>>]
  /\ UNCHANGED <<storeVars, isLoaded, disk, pc, lastResult, loaderVars,
                 mutations, diskEdits, now, importResult>>

\* ------------------------------------------------------------------------
\* ExerciseTemplateService.shuffleArray applied to arbitrary arrays
\* ------------------------------------------------------------------------
ShuffleInputs == UNION {[1..n -> {"a", "b", "c"}] : n \in 0..MaxShuffleLen}

\* `const shuffled = [...array]`: the loop works on a copy, the argument keeps
\* its elements
shuffleArrayCall(array, draws) ==
  /\ gen = NoRequest
  /\ gen' = [op |-> "shuffleArray", input |-> array, draws |-> draws,
             array |-> array, shuffled |-> shuffleArray(array, draws)]
  /\ UNCHANGED <<storeVars, isLoaded, disk, pc, lastResult, loaderVars,
                 mutations, diskEdits, now, importResult>>

\* ------------------------------------------------------------------------
\* Specification of the store life cycle
\* ------------------------------------------------------------------------
vars == <<definitionsDB, definitionsKeys, sentencesDB, exerciseTemplatesDB, similarWordsDB, distractorsDB,
          isLoaded, disk, pc, lastResult, dlIsLoaded, loadStats, dl,
          mutations, diskEdits, gen, now, importResult>>

Init ==
  /\ definitionsDB = EmptyMap
  /\ definitionsKeys = <<>>
  /\ sentencesDB = EmptyMap
  /\ exerciseTemplatesDB = EmptyMap
  /\ similarWordsDB = EmptyMap
  /\ distractorsDB = EmptyMap
  /\ isLoaded = FALSE
  /\ disk \in InitialDisks
  /\ pc = [c \in Callers |-> IF c \in ConstructorCallers THEN "unstarted" ELSE "done"]
  /\ lastResult = "none"
  /\ dlIsLoaded = FALSE
  /\ loadStats = <<>>
  /\ dl = [t \in LoaderCalls |-> IdleTask]
  /\ mutations = 0
  /\ diskEdits = 0
  /\ gen = NoRequest
  /\ now = 0
  /\ importResult = [i \in ImportCalls |-> NoImport]

Next ==
  \/ \E c \in Callers : LoadAllDataCall(c)
  \/ \E c \in Callers : LoadAllDataSettle(c)
  \/ \E d \in DefInputs : MixedMutation /\ addDefinition(d)
  \/ \E w \in Words, d \in AdminData : MixedMutation /\ addAdminDefinition(w, d)
  \/ \E w \in Words, d \in AdminData : MixedMutation /\ updateDefinition(w, d)
  \/ \E w \in Words : MixedMutation /\ removeDefinition(w)
  \/ \E w \in Words, d \in SentenceData : MixedMutation /\ addSentenceExample(w, d)
  \/ \E w \in Words, ss \in SentenceLists : MixedMutation /\ addSentenceExamples(w, ss)
  \/ \E t \in LoaderCalls : initializeWithRetryCall(t, DefaultMaxRetries)
  \/ \E t \in LoaderCalls : reloadData(t)
  \/ \E t \in LoaderCalls : LoadAttemptSettle(t)
  \/ \E t \in LoaderCalls : LoadAttemptCount(t)
  \/ \E t \in LoaderCalls : LoadAttemptValidate(t)
  \/ \E t \in LoaderCalls : LoadAttemptEnd(t)
  \/ \E t \in LoaderCalls : BackoffElapsed(t)

Spec == Init /\ [][Next]_vars

\* The store alone: the loads of the constructors and of the request handlers
\* and the admin mutations
NextStore ==
  \/ \E c \in Callers : LoadAllDataCall(c)
  \/ \E c \in Callers : LoadAllDataSettle(c)
  \/ \E d \in DefInputs : addDefinition(d)
  \/ \E w \in Words, d \in AdminData : addAdminDefinition(w, d)
  \/ \E w \in Words, d \in AdminData : updateDefinition(w, d)
  \/ \E w \in Words : removeDefinition(w)
  \/ \E w \in Words, d \in SentenceData : addSentenceExample(w, d)
  \/ \E w \in Words, ss \in SentenceLists : addSentenceExamples(w, ss)

SpecStore == Init /\ [][NextStore]_vars

\* The DataLoader over the store as the files give it: the calls every caller
\* of the repository makes, overlapping or not, without admin mutations
NextLoad ==
  \/ \E c \in Callers : LoadAllDataCall(c)
  \/ \E c \in Callers : LoadAllDataSettle(c)
  \/ \E t \in LoaderCalls : initializeWithRetryCall(t, DefaultMaxRetries)
  \/ \E t \in LoaderCalls : reloadData(t)
  \/ \E t \in LoaderCalls : LoadAttemptSettle(t)
  \/ \E t \in LoaderCalls : LoadAttemptCount(t)
  \/ \E t \in LoaderCalls : LoadAttemptValidate(t)
  \/ \E t \in LoaderCalls : LoadAttemptEnd(t)
  \/ \E t \in LoaderCalls : BackoffElapsed(t)

SpecLoad == Init /\ [][NextLoad]_vars

\* The DataLoader while the curated files change under it: the retry loop
\* under every attempt budget and the explicit reload, without admin mutations
NextRetry ==
  \/ \E c \in ConstructorCallers : LoadAllDataCall(c)
  \/ \E c \in ConstructorCallers : LoadAllDataSettle(c)
  \/ \E t \in LoaderCalls, m \in 0..MaxAttemptsBound : initializeWithRetryCall(t, m)
  \/ \E t \in LoaderCalls : reloadData(t)
  \/ \E t \in LoaderCalls : LoadAttemptSettle(t)
  \/ \E t \in LoaderCalls : LoadAttemptCount(t)
  \/ \E t \in LoaderCalls : LoadAttemptValidate(t)
  \/ \E t \in LoaderCalls : LoadAttemptEnd(t)
  \/ \E t \in LoaderCalls : BackoffElapsed(t)
  \/ \E c \in DefinitionFileContents : EditDefinitionsFile(c)
  \/ \E c \in SentenceFileContents : EditSentencesFile(c)

SpecRetry == Init /\ [][NextRetry]_vars

\* Exercise generation over a store the service constructors have loaded
InitGen ==
  \E dk \in {DiskWith(ArrayFile(<<DefBank, DefZephyr>>), Dir("bank" :> ArrayFile(<<SentBankDaily, SentBankGeo>>))),
             DiskWith(ArrayFile(<<DefBankUpper>>), MissingDir)} :
    LET f == FreshLoad(dk) IN
      /\ definitionsDB = f.definitionsDB
      /\ definitionsKeys = f.definitionsKeys
      /\ sentencesDB = f.sentencesDB
      /\ exerciseTemplatesDB = f.exerciseTemplatesDB
      /\ similarWordsDB = f.similarWordsDB
      /\ distractorsDB = f.distractorsDB
      /\ disk = f.disk
      /\ isLoaded = TRUE
      /\ pc = [c \in Callers |-> "done"]
      /\ lastResult = "none"
      /\ dlIsLoaded = FALSE
      /\ loadStats = <<>>
      /\ dl = [t \in LoaderCalls |-> IdleTask]
      /\ mutations = 0
      /\ diskEdits = 0
      /\ gen = NoRequest
      /\ now = 0
      /\ importResult = [i \in ImportCalls |-> NoImport]

NextGen ==
  \/ \E ws \in WordLists, c \in GenContexts, ts \in TypeLists : generateExercises(ws, c, ts)
  \/ returnExercises
  \/ Tick

SpecGen == InitGen /\ [][NextGen]_vars

\* Bulk import into a store the service constructors have loaded
NextImport ==
  \/ \E data \in ImportPayloads, overwrite \in BOOLEAN, via \in {"service", "route"} :
       importData(data, overwrite, via)
  \/ \E i \in ImportCalls : importDataResume(i)
  \/ \E i \in ImportCalls, t \in LoaderCalls : importRouteReload(i, t)
  \/ \E t \in LoaderCalls : LoadAttemptSettle(t)
  \/ \E t \in LoaderCalls : LoadAttemptCount(t)
  \/ \E t \in LoaderCalls : LoadAttemptValidate(t)
  \/ \E t \in LoaderCalls : LoadAttemptEnd(t)
  \/ \E w \in Words : MixedMutation /\ removeDefinition(w)

SpecImport == InitGen /\ [][NextImport]_vars

\* Specification of the look-up requests over a loaded store
NextLookup ==
  \/ \E w \in Words, c \in LookupContexts : getWordDetails(w, c)
  \/ \E ws \in WordLists, c \in LookupContexts, l \in Levels : generateLightReading(ws, c, l)
  \/ \E u \in Answers, c \in Answers : validateAnswer(u, c)
  \/ \E u \in Answers, c \in Answers : validateWordAnswer(u, c)
  \/ sendResponse
  \/ \E w \in Words : removeDefinition(w)

SpecLookup == InitGen /\ [][NextLookup]_vars

\* Specification of reads interleaved with admin mutations in flight
NextAdmin ==
  \/ \E call \in AdminCalls : AdminCallStart(call)
  \/ \E w \in Words : ReadInterleaved(w)
  \/ \E i \in 1..MaxAdminCalls : AdminCallReturn(i)

SpecAdmin == InitGen /\ [][NextAdmin]_vars

\* Specification of shuffleArray over arbitrary inputs and draws
NextShuffle ==
  \/ \E a \in ShuffleInputs : \E d \in ShuffleDraws(Len(a)) : shuffleArrayCall(a, d)
  \/ sendResponse

SpecShuffle == InitGen /\ [][NextShuffle]_vars

\* ------------------------------------------------------------------------
\* Properties
\* ------------------------------------------------------------------------
Keys == {ToLowerCase(w) : w \in Words}

DefEntry(db, k) == IF k \in DOMAIN db THEN <<db[k]>> ELSE <<>>

\* C1: for every stored word W and context C, getDefinition(W, C) is the
\* contextual string stored under C whenever the definition has an entry for
\* C, whatever the case of the stored key and whatever the entry's content,
\* and is the general definition when no entry is stored for C.
C1_ContextualBeforeGeneral ==
  \A w \in Words, c \in Contexts :
    (hasWord(w) /\ HasContextual(definitionsDB[ToLowerCase(w)])) =>
      LET d == definitionsDB[ToLowerCase(w)] IN
        /\ c \in DOMAIN d.contextual => getDefinition(w, c) = d.contextual[c]
        /\ (\A k \in DOMAIN d.contextual : ToLowerCase(k) # ToLowerCase(c))
             => getDefinition(w, c) = d.general

\* C2: once an admin mutation has completed, a fresh process that loads the
\* backing files obtains, for every entry the mutation changed, the value the
\* mutating process holds in memory (stated for the steps after which the
\* files are loadable at all).
C2_StorageReflectsMutations ==
  [][ (mutations' # mutations /\ FreshLoad(disk').error = <<>>) =>
        \A k \in Keys :
          /\ DefEntry(definitionsDB', k) # DefEntry(definitionsDB, k)
               => DefEntry(FreshLoad(disk').definitionsDB, k) = DefEntry(definitionsDB', k)
          /\ DefEntry(sentencesDB', k) # DefEntry(sentencesDB, k)
               => DefEntry(FreshLoad(disk').sentencesDB, k) = DefEntry(sentencesDB', k) ]_vars

\* number of loadAllData calls that have read the files and not yet settled
PopulationsInFlight ==
  Cardinality({c \in Callers : pc[c] \in {"resolving", "rejecting"}})
  + Cardinality({t \in LoaderCalls :
                   dl[t].pc = "loading" /\ dl[t].storeCall \in {"resolving", "rejecting"}})

\* C3: loads are serialized: while one loadAll is in flight a later call
\* waits for it, so at most one population of the store is in flight.
C3_LoadsSerialized == PopulationsInFlight <= 1

\* a step that invokes ManualDataService.loadAllData
LoadCallStep ==
  \/ \E c \in Callers : LoadAllDataCall(c)
  \/ \E t \in LoaderCalls, m \in 0..MaxAttemptsBound : initializeWithRetryCall(t, m)
  \/ \E t \in LoaderCalls : reloadData(t)
  \/ \E t \in LoaderCalls : BackoffElapsed(t)

\* C4: once loadAll has succeeded, a further loadAll call leaves every
\* category of the store exactly as it was, mutations in between or not.
C4_IdempotentLoad == [][ (isLoaded /\ LoadCallStep) => UNCHANGED storeVars ]_vars

\* a load call found the store loaded after an admin mutation and has
\* returned at once, the store holding what the files do not
C4_Witness ==
  /\ isLoaded
  /\ lastResult = "noop"
  /\ mutations > 0
  /\ definitionsDB # FreshLoad(disk).definitionsDB

StoreMatchesStorage ==
  LET f == FreshLoad(disk) IN
    /\ definitionsDB = f.definitionsDB
    /\ sentencesDB = f.sentencesDB
    /\ exerciseTemplatesDB = f.exerciseTemplatesDB
    /\ similarWordsDB = f.similarWordsDB
    /\ distractorsDB = f.distractorsDB

\* C5: when an explicit reload (reloadData, or initializeWithRetry on a store
\* already loaded) completes successfully, the store contents equal what the
\* backing files contain at that time.
C5_ReloadMatchesStorage ==
  [][ \A t \in LoaderCalls :
        (LoadAttemptEnd(t) /\ dl[t].storeCall = "noop") => StoreMatchesStorage' ]_vars

AllFailed(log) == \A i \in 1..Len(log) : ~log[i].ok

\* what the retry loop of caller t has done so far
RetryLoopShape(t) ==
  LET task == dl[t] IN
    /\ Len(task.log) <= task.maxRetries
    /\ \A i \in 1..(Len(task.log) - 1) : ~task.log[i].ok
    /\ task.pc = "returned" <=> (task.log # <<>> /\ task.log[Len(task.log)].ok)
    /\ task.pc = "returned" => (isLoaded /\ task.returned # <<>>)
    /\ task.pc = "thrown" <=> (Len(task.log) = task.maxRetries /\ AllFailed(task.log))
    /\ task.pc = "thrown" =>
         task.thrown = <<[wrapped |-> TRUE, attempts |-> task.maxRetries,
                          message |-> IF task.log = <<>> THEN "undefined"
                                      ELSE task.log[Len(task.log)].message]>>
    /\ task.pc # "returned" => task.returned = <<>>

\* C6: initializeWithRetry(maxAttempts) makes at most maxAttempts attempts,
\* stops at the first success and returns that attempt's statistics; when all
\* attempts fail it throws the summary wrapping the last attempt's message;
\* it returns only after a successful load.  (The shape of the loop is stated
\* for the state every step leads to, the return for the step that returns.)
C6_RetryOutcome ==
  [][ \A t \in LoaderCalls :
        /\ dl'[t].op = "initializeWithRetry" => RetryLoopShape(t)'
        /\ (dl[t].op = "initializeWithRetry" /\ LoadAttemptEnd(t)) =>
             /\ dlIsLoaded' /\ isLoaded'
             /\ dl'[t].returned = loadStats'
             /\ dl'[t].log[Len(dl'[t].log)].ok ]_vars

\* Scenario D: two failed attempts, then a successful third
C6_Witness ==
  \E t \in LoaderCalls :
    /\ dl[t].op = "initializeWithRetry" /\ dl[t].pc = "returned" /\ dl[t].maxRetries = 3
    /\ Len(dl[t].log) = 3 /\ ~dl[t].log[1].ok /\ ~dl[t].log[2].ok /\ dl[t].log[3].ok

ExpectedDelay(a) == IF a = 1 THEN 1000 ELSE IF a = 2 THEN 2000 ELSE IF a = 3 THEN 4000 ELSE 5000

\* C7: the wait after failed attempt a is min(1000 * 2^(a-1), 5000) ms, and a
\* wait follows a failed attempt exactly when it is not the last permitted one.
C7_BackoffSchedule ==
  \A t \in LoaderCalls :
    dl[t].op = "initializeWithRetry" =>
      /\ \A a \in 1..Len(dl[t].delays) : dl[t].delays[a] = ExpectedDelay(a)
      /\ Len(dl[t].delays) =
           Cardinality({a \in 1..Len(dl[t].log) : ~dl[t].log[a].ok /\ a < dl[t].maxRetries})

\* six attempts failed: the waits were 1000, 2000, 4000, 5000, 5000
C7_Witness ==
  \E t \in LoaderCalls :
    /\ dl[t].op = "initializeWithRetry" /\ dl[t].pc = "thrown" /\ dl[t].maxRetries = 6
    /\ dl[t].delays = <<1000, 2000, 4000, 5000, 5000>>

\* C8: getHealthStatus is 'error' iff data is not loaded or the last load
\* recorded a validation error, 'warning' iff loaded without statistics,
\* 'healthy' iff loaded with statistics and no error.
C8_HealthMapping ==
  LET recordedErrors == IF loadStats = <<>> THEN 0 ELSE Len(Head(loadStats).errors) IN
    /\ getHealthStatus \in {"error", "warning", "healthy"}
    /\ getHealthStatus = "error" <=> (~dlIsLoaded \/ recordedErrors >= 1)
    /\ getHealthStatus = "warning" <=> (dlIsLoaded /\ loadStats = <<>>)
    /\ getHealthStatus = "healthy" <=> (dlIsLoaded /\ loadStats # <<>> /\ recordedErrors = 0)

\* a completed load that recorded a validation error
C8_Witness ==
  /\ dlIsLoaded /\ loadStats # <<>>
  /\ Len(Head(loadStats).errors) >= 1
  /\ getHealthStatus = "error"

\* C10: getDistractors returns exactly 3 elements for every word and every
\* optional context.
C10_ThreeDistractors ==
  \A w \in Words, c \in Contexts \cup {NoContext} : Len(getDistractors(w, c)) = 3

\* the distractor files are loaded and hold nothing for "zephyr" alone
C10_Witness ==
  /\ isLoaded
  /\ "bank" \in DOMAIN distractorsDB
  /\ "zephyr" \notin DOMAIN distractorsDB
  /\ getDistractors("zephyr", NoContext) = generateBasicDistractors("zephyr")

\* the curated list stored under a key, empty when the key is absent
CuratedAt(key) == IF key \in DOMAIN distractorsDB THEN distractorsDB[key] ELSE <<>>

\* the key getDistractors consults first for (word, context)
FirstKey(w, c) == IF c # NoContext THEN ContextKey(c, w) ELSE ToLowerCase(w)

Fillers == {generateBasicDistractors("bank")[i] : i \in 1..3}

\* C11: when the store holds k curated distractors for a (word, context),
\* 1 <= k < 3, getDistractors returns those k entries followed by exactly
\* 3 - k synthesized fillers.
C11_PartialToppedUp ==
  \A w \in Words, c \in Contexts \cup {NoContext} :
    LET cur == CuratedAt(FirstKey(w, c))
        k == Len(cur)
        r == getDistractors(w, c)
    IN (1 <= k /\ k < 3) =>
         /\ Len(r) = 3
         /\ SubSeq(r, 1, k) = cur
         /\ \A i \in (k + 1)..3 : r[i] \in Fillers

\* C12: getDistractors returns the first entries of the composite key when it
\* holds at least 3, otherwise those of the word-only key when it holds at
\* least 3, otherwise the 3 synthesized placeholders.
C12_DistractorPrecedence ==
  \A w \in Words, c \in Contexts \cup {NoContext} :
    LET composite == CuratedAt(FirstKey(w, c))
        wordOnly == CuratedAt(ToLowerCase(w))
        r == getDistractors(w, c)
    IN /\ Len(composite) >= 3 => r = SliceTo(composite, 3)
       /\ (Len(composite) < 3 /\ Len(wordOnly) >= 3) => r = SliceTo(wordOnly, 3)
       /\ (Len(composite) < 3 /\ Len(wordOnly) < 3) => r = generateBasicDistractors(w)

\* both the composite and the word-only list of "bank" hold 3 or more entries
\* and differ: the composite one is returned
C12_Witness ==
  /\ isLoaded
  /\ Len(CuratedAt("geography_bank")) >= 3 /\ Len(CuratedAt("bank")) >= 3
  /\ SliceTo(CuratedAt("geography_bank"), 3) # SliceTo(CuratedAt("bank"), 3)
  /\ getDistractors("Bank", "Geography") = SliceTo(CuratedAt("geography_bank"), 3)

\* C13: after addDefinition(D), getDefinition(D.word) without context returns
\* D.general, and after removeDefinition(W), getDefinition(W) returns the
\* not-found sentinel, whatever the letter case of the word in either call
\* and whatever mutations preceded.
C13_DefinitionRoundTrip ==
  [][ /\ \A d \in DefInputs :
           addDefinition(d) =>
             \A w \in Words :
               ToLowerCase(w) = ToLowerCase(d.word) => getDefinition(w, NoContext)' = d.general
      /\ \A w0 \in Words :
           removeDefinition(w0) =>
             \A w \in Words :
               ToLowerCase(w) = ToLowerCase(w0) => getDefinition(w, NoContext)' = NotFoundMessage(w)
    ]_vars

\* three mutations have run on a loaded store: the definition of "zephyr" was
\* changed, then "Bank" was added with addDefinition (the definitions file the
\* call wrote holds the added record and the changed one), then the word was
\* removed again, and the lookup under the other letter case answers with the
\* sentinel
C13_Witness ==
  /\ isLoaded
  /\ mutations = 3
  /\ "manual_entries" \in DOMAIN disk.definitions.files
  /\ LET saved == disk.definitions.files["manual_entries"].items IN
       /\ \E i \in 1..Len(saved) : saved[i] = DefBankUpper
       /\ \E i \in 1..Len(saved) : saved[i].word = "zephyr" /\ saved[i].general = "shore"
  /\ "bank" \notin DOMAIN definitionsDB
  /\ getDefinition("Bank", NoContext) = NotFoundMessage("Bank")
  /\ getDefinition("bank", NoContext) = NotFoundMessage("bank")

\* C14: getDefinition raises no failure for any word and context in any
\* reachable store state, and for a word without stored definition it returns
\* the not-found message that quotes the word as given.
C14_GetDefinitionNeverThrows ==
  \A w \in Words, c \in Contexts \cup {NoContext} :
    /\ ~getDefinitionThrows(w, c)
    /\ getDefinition(w, c) # TypeErrorUndefined
    /\ ~hasWord(w) => getDefinition(w, c) = NotFoundMessage(w)

\* C15: updateDefinition on a word without stored definition fails with the
\* not-found error and leaves the store and the files exactly as they were: it
\* never creates the definition; on a stored word it raises no error.
C15_UpdateMissingFails ==
  [][ \A w \in Words, d \in AdminData :
        updateDefinition(w, d) =>
          IF hasWord(w)
            THEN lastResult' = "ok"
            ELSE /\ lastResult' = UpdateNotFoundError(w)
                 /\ UNCHANGED <<storeVars, disk>>
                 /\ ~hasWord(w)' ]_vars

\* a store that holds no definition of "zephyr" (its definitions file could
\* not be read) refused the update, and still holds none
C15_Witness ==
  /\ mutations = 1
  /\ "zephyr" \notin DOMAIN definitionsDB
  /\ lastResult = UpdateNotFoundError("zephyr")

\* a record of the payload that names its word
ImportableRecord(defs, i) == defs[i] # ImpNull /\ "word" \in DOMAIN defs[i]

\* the step in which the importData call i returns
ImportReturns(i) == importResult[i].pc # "returned" /\ importResult'[i].pc = "returned"

\* no other importData call was in flight when call i was made, and none has
\* been made since
ImportAlone(i) ==
  /\ Head(importResult'[i].pre).alone
  /\ \A j \in ImportCalls : j > i => importResult'[j].pc = "none"

\* C16: importData honours the overwrite flag: a record whose key exists is
\* skipped and leaves the stored definition unchanged when overwrite is false,
\* and replaces it when overwrite is true; records with new keys are always
\* imported; imported + skipped + failed records = records of the payload, a
\* failing record never keeping the remaining ones from being processed.
\* (Stated for the step in which a call returns that no other import and no
\* admin mutation has run alongside, against the definitions stored when it
\* was made.)
C16_ImportHonoursOverwrite ==
  [][ \A n \in ImportCalls :
      (ImportReturns(n) /\ ImportAlone(n) /\ Head(importResult'[n].pre).mutations = mutations') =>
        LET r == importResult'[n]
            defs == Head(r.data).definitions
            before == Head(r.pre).definitionsDB
            ok == {i \in 1..Len(defs) : ImportableRecord(defs, i)}
            colliding ==
              {i \in ok :
                 \/ ToLowerCase(defs[i].word) \in DOMAIN before
                 \/ \E j \in 1..(i - 1) :
                      /\ ImportableRecord(defs, j)
                      /\ ToLowerCase(defs[j].word) = ToLowerCase(defs[i].word)}
        IN /\ r.imported + r.skipped + Len(r.errors) = Len(defs)
           /\ Len(r.errors) = Len(defs) - Cardinality(ok)
           /\ \A i \in ok : ToLowerCase(defs[i].word) \in DOMAIN definitionsDB'
           /\ ~r.overwrite =>
                /\ r.skipped = Cardinality(colliding)
                /\ r.imported = Cardinality(ok \ colliding)
                /\ \A k \in DOMAIN before : definitionsDB'[k] = before[k]
           /\ r.overwrite =>
                /\ r.skipped = 0
                /\ r.imported = Cardinality(ok)
                /\ \A i \in ok :
                     (\A j \in ok : j > i => ToLowerCase(defs[j].word) # ToLowerCase(defs[i].word))
                       => definitionsDB'[ToLowerCase(defs[i].word)]
                            = AdminDefinition(defs[i].word, defs[i]) ]_vars

\* what validateDataIntegrity must report about the words of the store
ValidationVerdict ==
  LET v == validateDataIntegrity IN
    /\ \A k \in DOMAIN definitionsDB :
         /\ (\E i \in 1..Len(v.errors) : v.errors[i].word = k)
              <=> IncludesNotFound(definitionsDB[k].general)
         /\ (k \notin DOMAIN sentencesDB \/ sentencesDB[k] = <<>>)
              => \E i \in 1..Len(v.warnings) :
                   v.warnings[i] = [kind |-> "no example sentences", word |-> k]
    /\ \A i \in 1..Len(v.errors) : v.errors[i].word \in DOMAIN definitionsDB
    /\ v.isValid <=> (v.errors = <<>>)

\* C17: validateDataIntegrity reports an error for exactly the loaded words
\* without a non-sentinel definition and a warning for every word without
\* example sentence, isValid being true iff there is no error; a load whose
\* validation has errors still completes and carries them in its statistics.
\* (The verdict is checked in the state each step starts from; every reachable
\* state has a step.)
C17_ValidationVerdict ==
  [][ /\ ValidationVerdict
      /\ \A t \in LoaderCalls :
           LoadAttemptEnd(t) =>
             /\ dl'[t].pc = "returned"
             /\ dlIsLoaded'
             /\ Head(loadStats').errors = Head(dl[t].validation).errors ]_vars

\* a load completed although its validation found the draft entry of "zephyr"
C17_Witness ==
  /\ \E t \in LoaderCalls : dl[t].pc = "returned" /\ dl[t].returned = loadStats
  /\ ~validateDataIntegrity.isValid
  /\ Head(loadStats).errors = <<[kind |-> "No definition found for word", word |-> "zephyr"]>>

\* C18: a manual-mode generation operation raises no failure for an input
\* word that merely lacks data: getWordDetails for a word without a stored
\* definition returns a (degraded) result instead of throwing
C18_MissingWordDegrades ==
  ("op" \in DOMAIN gen /\ gen.op = "getWordDetails" /\ ~hasWord(gen.word)) =>
    gen.outcome.thrown = <<>>

\* C19: generateLightReading reports total_words_in_list = n and
\* words_included = the number of requested words that have at least one
\* example sentence for the (word, context); the first example of each such
\* word is in the passage in request order, the other words add no sentence
HasExample(word, context) == Len(getSentenceExamples(word, context)) > 0

C19_PassageCounts ==
  ("op" \in DOMAIN gen /\ gen.op = "generateLightReading") =>
    LET positions == [i \in 1..Len(gen.words) |-> i]
        having == SelectSeq(positions, LAMBDA i : HasExample(gen.words[i].value, gen.context))
        body == SubSeq(gen.outcome.content, 2, Len(gen.outcome.content) - 1)
    IN /\ gen.outcome.total_words_in_list = Len(gen.words)
       /\ gen.outcome.words_included = Len(having)
       /\ body = [j \in 1..Len(having) |->
                    getSentenceExamples(gen.words[having[j]].value, gen.context)[1].sentence]

\* C20: on every validation path isCorrect is true exactly when the user
\* answer and the correct answer are equal after trimming and lower-casing
C20_NormalizedExactEquality ==
  ("op" \in DOMAIN gen /\ gen.op = "validateAnswer") =>
    (gen.outcome.isCorrect <=>
       LowerCaseChars(Trim(gen.userAnswer)) = LowerCaseChars(Trim(gen.correctAnswer)))

\* C21: a true_false exercise has correct = 'True' exactly when the meaning
\* shown in its statement is the word's correct meaning
C21_TrueFalseConsistent ==
  ("result" \in DOMAIN gen /\ Len(gen.result) = Len(gen.words)) =>
    \A i \in 1..Len(gen.result) :
      gen.result[i].type = "true_false" =>
        (gen.result[i].correct = "True" <=>
           gen.result[i].question.shown = gen.words[i].meaning)

\* number of occurrences of x in seq
Count(seq, x) == Cardinality({k \in 1..Len(seq) : seq[k] = x})

IsPermutation(a, b) ==
  /\ Len(a) = Len(b)
  /\ \A k \in 1..Len(a) : Count(a, a[k]) = Count(b, a[k])

\* C22: the options of a multiple_choice or matching exercise are a
\* permutation of the correct meaning together with the 3 distractors the
\* store returns, correct is the word's meaning verbatim and is one of the
\* options, whatever the shuffle drew
C22_OptionsHoldCorrect ==
  ("result" \in DOMAIN gen /\ Len(gen.result) = Len(gen.words)) =>
    \A i \in 1..Len(gen.result) :
      gen.result[i].type \in {"multiple_choice", "matching"} =>
        /\ IsPermutation(gen.result[i].options,
                         <<gen.words[i].meaning>>
                           \o getDistractors(gen.words[i].value, gen.context))
        /\ gen.result[i].correct = gen.words[i].meaning
        /\ \E k \in 1..Len(gen.result[i].options) :
             gen.result[i].options[k] = gen.result[i].correct

\* a multiple_choice exercise whose shuffle moved the correct
\* meaning to the last place
C22_Witness ==
  /\ "result" \in DOMAIN gen
  /\ \E i \in 1..Len(gen.result) :
       /\ gen.result[i].type = "multiple_choice"
       /\ gen.result[i].options[4] = gen.result[i].correct
       /\ gen.result[i].options[1] # gen.result[i].correct

\* C23: in manual mode the data-loaded flag an adapter's getHealthStatus
\* reports equals the load state of the content store (stated for the states
\* in which every started load has settled)
C23_AdapterHealthMatchesStore ==
  Quiescent => \A key \in BOOLEAN :
    /\ QuizGetHealthStatus(TRUE, key).details.dataLoaded = isLoaded
    /\ LearnGetHealthStatus(TRUE, key).details.dataLoaded = isLoaded

\* C24: in every reachable store state every key of the definitions map is
\* lower-cased and every stored Definition has a contextual mapping
C24_StoredDefinitionShape ==
  \A key \in DOMAIN definitionsDB :
    /\ key = ToLowerCase(key)
    /\ HasContextual(definitionsDB[key])

\* the calls in flight are two updateDefinition calls on the same stored
\* word, and no other call has run alongside them
TwoUpdatesInFlight ==
  /\ Len(InFlight) = 2
  /\ gen.started = 2
  /\ \A i \in 1..2 : InFlight[i].call.name = "updateDefinition"
  /\ ToLowerCase(InFlight[1].call.word) = ToLowerCase(InFlight[2].call.word)
  /\ InFlight[1].pre.definition # <<>>

\* C25: a read interleaved with a single admin mutation in flight observes
\* the complete pre-mutation or the complete post-mutation value of the
\* affected entry, and of two updateDefinition calls in flight on the same
\* word neither update is lost: the second is applied to the result of the
\* first, and what the second leaves alone keeps the value the first gave it
C25_NoTornWrites ==
  /\ (Len(InFlight) = 1 /\ gen.started = 1 /\ gen.observed # <<>>
        /\ ToLowerCase(gen.observed[1].word) = ToLowerCase(InFlight[1].call.word)) =>
       gen.observed[1].value \in {InFlight[1].pre, InFlight[1].post}
  /\ TwoUpdatesInFlight =>
       LET first == InFlight[1]
           second == InFlight[2]
           final == definitionsDB[ToLowerCase(second.call.word)]
       IN /\ second.pre = first.post
          /\ <<final>> = second.post.definition
          /\ final.general = second.call.data.general
          /\ (second.call.data.contextual = <<>> /\ first.call.data.contextual # <<>>) =>
               final.contextual = Head(first.call.data.contextual)
          /\ (second.call.data.difficulty = "" /\ first.call.data.difficulty # "") =>
               final.difficulty = first.call.data.difficulty

\* two updateDefinition calls on the same word are in flight, the second
\* leaving the contextual mapping of the first alone, and a read of the word
\* has run before either caller was resumed
C25_Witness ==
  /\ TwoUpdatesInFlight
  /\ gen.observed # <<>>
  /\ ToLowerCase(gen.observed[1].word) = ToLowerCase(InFlight[1].call.word)
  /\ InFlight[2].call.data.contextual = <<>>
  /\ InFlight[1].call.data.contextual # <<>>

\* C26: no two exercises of one generateExercises result have equal ids
C26_UniqueExerciseIds ==
  "result" \in DOMAIN gen =>
    \A i, j \in 1..Len(gen.result) :
      i # j => gen.result[i].id # gen.result[j].id

\* C27: shuffleArray returns a permutation of its input (same length, same
\* multiset of elements) for every input and every sequence of draws, and
\* leaves the input sequence unmodified
C27_ShufflePermutes ==
  ("op" \in DOMAIN gen /\ gen.op = "shuffleArray") =>
    /\ IsPermutation(gen.shuffled, gen.input)
    /\ gen.array = gen.input

\* an array of three elements, two of them equal, came back in another order
C27_Witness ==
  /\ "op" \in DOMAIN gen
  /\ gen.op = "shuffleArray"
  /\ Len(gen.input) = 3
  /\ gen.input[1] = gen.input[2]
  /\ gen.shuffled # gen.input

\* C28: a loadAllData attempt that fails leaves the definitions and the
\* sentences that the lookups read as they were before the attempt, and the
\* loaded flag stays false
C28_FailedLoadAllOrNothing ==
  [][ \A c \in Callers :
        (LoadAllDataCall(c) /\ pc'[c] = "rejecting") =>
          /\ UNCHANGED <<definitionsDB, sentencesDB>>
          /\ ~isLoaded' ]_vars

\* C29: in every reachable state of the DataLoader isLoaded = true implies
\* that loadStats is non-null, so getHealthStatus never returns 'warning'
C29_LoadedHasStats ==
  /\ dlIsLoaded => loadStats # <<>>
  /\ getHealthStatus # "warning"

\* a reloadData has cleared both fields and its load has failed
C29_Witness ==
  /\ ~dlIsLoaded
  /\ loadStats = <<>>
  /\ \E t \in LoaderCalls :
       /\ dl[t].op = "reloadData"
       /\ dl[t].pc = "thrown"
       /\ \E i \in 1..Len(dl[t].log) : ~dl[t].log[i].ok

\* C30: importing, with overwrite = false, the payload of the preceding
\* import once more, after that import has returned, leaves every word's
\* sentence sequence as the first import left it (only removeDefinition,
\* which does not touch the sentences, can come between the two)
C30_ReimportIdempotent ==
  [][ \A n \in ImportCalls :
      (/\ ImportReturns(n)
       /\ ImportAlone(n)
       /\ ~importResult'[n].overwrite
       /\ importResult'[n].previous = <<[data |-> importResult'[n].data, overwrite |-> FALSE]>>) =>
        sentencesDB' = Head(importResult'[n].pre).sentencesDB ]_vars

\* C9: generateExercises returns exactly one Exercise for each input word
\* whose meaning resolves in the store and none for a word without stored
\* data; a request for one such word alone yields the empty sequence.
C9_SkipsUnresolvedWords ==
  gen # NoRequest =>
    Len(gen.result) = Cardinality({i \in 1..Len(gen.words) : hasWord(gen.words[i].value)})

====
